---- MODULE Spec2Model ----
(***************************************************************************)
(* State-machine model of the ownership ledger (contracts/FractionalToken  *)
(* .sol, contract FractionalToken) and of the distribution engine (same    *)
(* file, contract RentDistribution), together with the part of PropertyNFT *)
(* they call (KYC registry, Ownable owner, updateAvailableTokens).         *)
(*                                                                         *)
(* One transaction is one step.  A transaction that reverts leaves every   *)
(* contract variable unchanged (EVM semantics), so a rejected call is a    *)
(* stuttering step.  Whether a call is rejected in a state, and with which *)
(* reason, is the value of its ...Revert operator, which evaluates the     *)
(* modifiers and require statements in the order the source evaluates      *)
(* them ("" when the call goes through).  An action is the accepted call.  *)
(*                                                                         *)
(* uint256 arithmetic is checked (Solidity 0.8 / SafeMath): an overflow    *)
(* reverts.  All quantities of the model stay far below 2^256, so the      *)
(* overflow branches are never taken and are not modelled.                 *)
(***************************************************************************)
EXTENDS Integers, Sequences, FiniteSets, TLC

(***************************************************************************)
(* Bounds of the model.                                                    *)
(***************************************************************************)
\* constructor argument _totalSupply of the one FractionalToken
TotalSupply == 1000
\* constructor argument _pricePerToken
PricePerToken == 1
\* at most this many entries in the investment log (purchases) in a run
MaxInvestments == 2
\* the distribution engine starts from a ledger that at most this many
\* accepted purchase, sale and transfer transactions have produced
MaxTrades == 2
\* at most this many distributions are created in a run of Spec, which
\* leaves the last id of DistributionIds unused; a run of SpecSnapshot may
\* use every id
MaxDistributions == 1
\* at most this many successful rent deposits in a run
MaxDeposits == 1

\* share amounts passed to purchaseTokens, sellTokens and transfer
ShareAmounts == {400, 600}
\* tokenAmount passed to purchaseTokens: nothing, two lots, more than exists
PurchaseAmounts == {0, 400, 600, 1500}
\* amount passed to approve
ApproveAmounts == {600}
\* msg.value of depositRent: rent for two distributions of 1000
DepositAmounts == {2000}
\* rentAmount passed to createDistribution
RentAmounts == {1, 1000}
\* fee rates passed to updateFees (basis points), below and above the ceilings
\* newAvailableTokens in a direct call of PropertyNFT.updateAvailableTokens
RegistryCounts == {400}
PlatformFeeChoices == {1000, 1001}
ManagementFeeChoices == {2000, 2001}

(***************************************************************************)
(* Addresses.                                                              *)
(***************************************************************************)
Operator == "op"           \* deployer: owner() of the three contracts
PropertyOwner == "po"      \* properties[propertyId].propertyOwner
TokenAddr == "token"       \* address(this) of the FractionalToken
PropertyManager == "pm"    \* address(this) of the PropertyManager
Investors == {"a", "b"}    \* externally owned accounts that trade shares
Spenders == {"b"}          \* accounts that are granted an allowance
Callers == Investors \cup {Operator, PropertyOwner}
Addresses == Callers \cup {TokenAddr, PropertyManager}

DistributionIds == 0 .. MaxDistributions

VARIABLES
    \* PropertyNFT and FractionalToken storage, one record:
    \*   kycVerified        PropertyNFT.kycVerified, as a set
    \*   nftOwner           Ownable owner() of PropertyNFT
    \*   nftAvailableTokens PropertyNFT.properties[propertyId].availableTokens
    \*   nftHolder          ERC721 ownerOf(propertyId)
    \*   managerPaused      Pausable _paused of PropertyManager
    \*   managerEth         address(PropertyManager).balance
    \*   totalInvestments   PropertyManager.totalInvestments
    \*   balances           ERC20 _balances
    \*   tokenInfo          struct TokenInfo (createdAt left out)
    \*   investors          address[] investors
    \*   isInvestor         mapping isInvestor, as a set
    \*   investments        mapping(address => Investment[]) (timestamp left out)
    \*   totalInvested      uint256 totalInvested
    \*   tokenEth           address(FractionalToken).balance
    \*   tokenPaused        Pausable _paused of FractionalToken
    ledger,
    \* ---- RentDistribution
    propertyToToken,    \* propertyToToken[propertyId] != address(0)
    totalRentCollected, \* totalRentCollected[propertyId]
    distributions,      \* mapping(uint256 => Distribution)
    distributionCounter,
    platformFeePercentage,
    managementFeePercentage,
    rentEth,            \* address(RentDistribution).balance
    rentPaused,         \* Pausable _paused of RentDistribution
    transferring,       \* the claimDistribution call that is at its transfer
    \* ---- observation (history) variables
    distributionAmount, \* DistributionCreated.totalAmount per id (the net amount)
    snapshotBalance,    \* balanceOf(investor) read at creation, per id
    ratesAtCreation,    \* the two fee rates read at creation, per id
    payouts,            \* number of RentDistributed transfers per id and payee
    deposits,           \* number of payments into RentDistribution
    feesPaid            \* value sent as fees by createDistribution, per payee

rentVars == <<propertyToToken, totalRentCollected, distributions,
              distributionCounter, platformFeePercentage,
              managementFeePercentage, rentEth, rentPaused, transferring>>
histVars == <<distributionAmount, snapshotBalance, ratesAtCreation, payouts,
              deposits, feesPaid>>
vars == <<ledger, propertyToToken, totalRentCollected, distributions,
          distributionCounter, platformFeePercentage, managementFeePercentage,
          rentEth, rentPaused, transferring, distributionAmount, snapshotBalance,
          ratesAtCreation, payouts, deposits, feesPaid>>

(***************************************************************************)
(* Helpers.                                                                *)
(***************************************************************************)
RECURSIVE SumOver(_, _)
SumOver(f, S) ==
    IF S = {} THEN 0
    ELSE LET x == CHOOSE y \in S : TRUE IN f[x] + SumOver(f, S \ {x})

Range(s) == {s[i] : i \in 1 .. Len(s)}

(***************************************************************************)
(* PropertyNFT and FractionalToken.  Every operator takes the storage      *)
(* record L it runs on; the ...Effect operators return the storage after   *)
(* an accepted call.                                                       *)
(***************************************************************************)
\* PropertyNFT() and FractionalToken(...) constructors, property minted to
\* PropertyOwner with totalTokens = _totalSupply
Constructed ==
    [kycVerified |-> {},
     nftOwner |-> Operator,
     nftAvailableTokens |-> TotalSupply,
     nftHolder |-> PropertyOwner,
     managerPaused |-> FALSE,
     managerEth |-> 0,
     totalInvestments |-> 0,
     balances |-> [x \in Addresses |-> IF x = TokenAddr THEN TotalSupply ELSE 0],
     tokenInfo |-> [totalSupply |-> TotalSupply,
                    availableSupply |-> TotalSupply,
                    pricePerToken |-> PricePerToken,
                    isActive |-> TRUE],
     investors |-> <<>>,
     isInvestor |-> {},
     investments |-> [x \in Addresses |-> <<>>],
     allowances |-> [x \in Addresses |-> [y \in Addresses |-> 0]],
     totalInvested |-> 0,
     tokenEth |-> 0,
     tokenPaused |-> FALSE]

\* PropertyNFT.setKYCStatus(user, verified), onlyOwner
SetKYCStatusRevert(L, sender) ==
    IF sender # L.nftOwner THEN "Ownable: caller is not the owner" ELSE ""

SetKYCStatusEffect(L, user, verified) ==
    [L EXCEPT !.kycVerified = IF verified THEN @ \cup {user} ELSE @ \ {user}]

\* Ownable.transferOwnership(newOwner) of PropertyNFT, as the deployment
\* script calls it
NFTTransferOwnershipRevert(L, sender) ==
    IF sender # L.nftOwner THEN "Ownable: caller is not the owner" ELSE ""

NFTTransferOwnershipEffect(L, newOwner) == [L EXCEPT !.nftOwner = newOwner]

\* PropertyNFT.updateAvailableTokens(tokenId, n) as called by the token
\* contract: onlyOwner, msg.sender = address(FractionalToken)
UpdateAvailableTokensRevert(L) ==
    IF L.nftOwner # TokenAddr THEN "Ownable: caller is not the owner" ELSE ""

\* PropertyNFT.updateAvailableTokens(tokenId, newAvailableTokens) called in
\* a transaction of its own: onlyOwner, any value is stored
UpdateAvailableTokensDirectRevert(L, sender) ==
    IF sender # L.nftOwner THEN "Ownable: caller is not the owner" ELSE ""

UpdateAvailableTokensDirectEffect(L, newAvailableTokens) ==
    [L EXCEPT !.nftAvailableTokens = newAvailableTokens]

\* ERC20._transfer(from, to, amount): balance check, then debit and credit
ERC20TransferRevert(L, from, amount) ==
    IF L.balances[from] < amount THEN "ERC20: transfer amount exceeds balance"
    ELSE ""

ERC20Transfer(bal, from, to, amount) ==
    LET debited == [bal EXCEPT ![from] = @ - amount]
    IN  [debited EXCEPT ![to] = @ + amount]

LogLength(L) == SumOver([x \in Addresses |-> Len(L.investments[x])], Addresses)

\* variant: purchaseTokens without its msg.value >= totalCost requirement
PurchaseTokensRevertNoPayment(L, sender, tokenAmount, value) ==
    IF sender \notin L.kycVerified THEN "KYC verification required"
    ELSE IF ~L.tokenInfo.isActive THEN "Token is not active"
    ELSE IF L.tokenPaused THEN "Pausable: paused"
    ELSE IF ~(tokenAmount > 0) THEN "Token amount must be greater than 0"
    ELSE IF ~(tokenAmount <= L.tokenInfo.availableSupply)
         THEN "Not enough tokens available"
    ELSE IF ERC20TransferRevert(L, TokenAddr, tokenAmount) # ""
         THEN ERC20TransferRevert(L, TokenAddr, tokenAmount)
    ELSE UpdateAvailableTokensRevert(L)

\* purchaseTokens(tokenAmount) payable onlyKYCVerified onlyActiveToken
\* whenNotPaused nonReentrant
PurchaseTokensRevert(L, sender, tokenAmount, value) ==
    IF sender \notin L.kycVerified THEN "KYC verification required"
    ELSE IF ~L.tokenInfo.isActive THEN "Token is not active"
    ELSE IF L.tokenPaused THEN "Pausable: paused"
    ELSE IF ~(tokenAmount > 0) THEN "Token amount must be greater than 0"
    ELSE IF ~(tokenAmount <= L.tokenInfo.availableSupply)
         THEN "Not enough tokens available"
    ELSE IF ~(value >= tokenAmount * L.tokenInfo.pricePerToken)
         THEN "Insufficient payment"
    ELSE IF ERC20TransferRevert(L, TokenAddr, tokenAmount) # ""
         THEN ERC20TransferRevert(L, TokenAddr, tokenAmount)
    ELSE UpdateAvailableTokensRevert(L)

\* variant: purchaseTokens listing the buyer at every purchase
PurchaseTokensEffectAlwaysListed(L, sender, tokenAmount, value) ==
    LET totalCost == tokenAmount * L.tokenInfo.pricePerToken
        newAvailable == L.tokenInfo.availableSupply - tokenAmount
    IN  [L EXCEPT
            !.tokenInfo.availableSupply = newAvailable,
            !.balances = ERC20Transfer(@, TokenAddr, sender, tokenAmount),
            !.investments[sender] =
                Append(@, [investor |-> sender, amount |-> tokenAmount,
                           pricePerToken |-> L.tokenInfo.pricePerToken]),
            !.investors = Append(@, sender),
            !.isInvestor = @ \cup {sender},
            !.totalInvested = @ + totalCost,
            !.nftAvailableTokens = newAvailable,
            !.tokenEth = @ + value - (value - totalCost)]

\* variant: purchaseTokens without the refund of the excess payment
PurchaseTokensEffectNoRefund(L, sender, tokenAmount, value) ==
    LET totalCost == tokenAmount * L.tokenInfo.pricePerToken
        newAvailable == L.tokenInfo.availableSupply - tokenAmount
        first == sender \notin L.isInvestor
    IN  [L EXCEPT
            !.tokenInfo.availableSupply = newAvailable,
            !.balances = ERC20Transfer(@, TokenAddr, sender, tokenAmount),
            !.investments[sender] =
                Append(@, [investor |-> sender, amount |-> tokenAmount,
                           pricePerToken |-> L.tokenInfo.pricePerToken]),
            !.investors = IF first THEN Append(@, sender) ELSE @,
            !.isInvestor = IF first THEN @ \cup {sender} ELSE @,
            !.totalInvested = @ + totalCost,
            !.nftAvailableTokens = newAvailable,
            !.tokenEth = @ + value]

PurchaseTokensEffect(L, sender, tokenAmount, value) ==
    LET totalCost == tokenAmount * L.tokenInfo.pricePerToken
        newAvailable == L.tokenInfo.availableSupply - tokenAmount
        first == sender \notin L.isInvestor
    IN  [L EXCEPT
            !.tokenInfo.availableSupply = newAvailable,
            !.balances = ERC20Transfer(@, TokenAddr, sender, tokenAmount),
            !.investments[sender] =
                Append(@, [investor |-> sender, amount |-> tokenAmount,
                           pricePerToken |-> L.tokenInfo.pricePerToken]),
            !.investors = IF first THEN Append(@, sender) ELSE @,
            !.isInvestor = IF first THEN @ \cup {sender} ELSE @,
            !.totalInvested = @ + totalCost,
            !.nftAvailableTokens = newAvailable,
            \* msg.value arrives, the excess over totalCost is refunded
            !.tokenEth = @ + value - (value - totalCost)]

\* variant: sellTokens without its balance requirement
SellTokensRevertNoBalance(L, sender, tokenAmount) ==
    IF sender \notin L.kycVerified THEN "KYC verification required"
    ELSE IF L.tokenPaused THEN "Pausable: paused"
    ELSE IF ~(tokenAmount > 0) THEN "Token amount must be greater than 0"
    ELSE IF ~(L.tokenEth >= tokenAmount * L.tokenInfo.pricePerToken)
         THEN "Insufficient contract balance"
    ELSE UpdateAvailableTokensRevert(L)

\* sellTokens(tokenAmount) onlyKYCVerified whenNotPaused nonReentrant
SellTokensRevert(L, sender, tokenAmount) ==
    IF sender \notin L.kycVerified THEN "KYC verification required"
    ELSE IF L.tokenPaused THEN "Pausable: paused"
    ELSE IF ~(tokenAmount > 0) THEN "Token amount must be greater than 0"
    ELSE IF ~(L.balances[sender] >= tokenAmount) THEN "Insufficient token balance"
    ELSE IF ~(L.tokenEth >= tokenAmount * L.tokenInfo.pricePerToken)
         THEN "Insufficient contract balance"
    ELSE UpdateAvailableTokensRevert(L)

\* variant: sellTokens without the credit to availableSupply
SellTokensEffectNoSupply(L, sender, tokenAmount) ==
    LET totalReceived == tokenAmount * L.tokenInfo.pricePerToken
    IN  [L EXCEPT
            !.balances = ERC20Transfer(@, sender, TokenAddr, tokenAmount),
            !.tokenEth = @ - totalReceived,
            !.nftAvailableTokens = L.tokenInfo.availableSupply]

\* variant: sellTokens without its call of updateAvailableTokens
SellTokensEffectNoNotify(L, sender, tokenAmount) ==
    LET totalReceived == tokenAmount * L.tokenInfo.pricePerToken
        newAvailable == L.tokenInfo.availableSupply + tokenAmount
    IN  [L EXCEPT
            !.balances = ERC20Transfer(@, sender, TokenAddr, tokenAmount),
            !.tokenInfo.availableSupply = newAvailable,
            !.tokenEth = @ - totalReceived]

SellTokensEffect(L, sender, tokenAmount) ==
    LET totalReceived == tokenAmount * L.tokenInfo.pricePerToken
        newAvailable == L.tokenInfo.availableSupply + tokenAmount
    IN  [L EXCEPT
            !.balances = ERC20Transfer(@, sender, TokenAddr, tokenAmount),
            !.tokenInfo.availableSupply = newAvailable,
            !.tokenEth = @ - totalReceived,
            !.nftAvailableTokens = newAvailable]

\* variant: transfer without the KYC requirement on the recipient
TransferRevertNoRecipient(L, sender, to, amount) ==
    IF sender \notin L.kycVerified THEN "KYC verification required"
    ELSE ERC20TransferRevert(L, sender, amount)

\* transfer(to, amount) override onlyKYCVerified; super.transfer debits
\* msg.sender and credits `to`
TransferRevert(L, sender, to, amount) ==
    IF sender \notin L.kycVerified THEN "KYC verification required"
    ELSE IF to \notin L.kycVerified THEN "Recipient must be KYC verified"
    ELSE ERC20TransferRevert(L, sender, amount)

\* variant: transfer taking the amount off availableSupply
TransferEffectOffSupply(L, sender, to, amount) ==
    [L EXCEPT !.balances = ERC20Transfer(@, sender, to, amount),
              !.tokenInfo.availableSupply = @ - amount]

TransferEffect(L, sender, to, amount) ==
    [L EXCEPT !.balances = ERC20Transfer(@, sender, to, amount)]

\* ERC20.approve(spender, amount), inherited unchanged: msg.sender sets the
\* allowance of spender, whatever the KYC flags and the pause say
ApproveEffect(L, owner, spender, amount) ==
    [L EXCEPT !.allowances[owner][spender] = amount]

\* transferFrom(from, to, amount) override onlyKYCVerified (of msg.sender,
\* the spender); super.transferFrom spends the allowance, then debits
\* `from` and credits `to`
TransferFromRevert(L, sender, from, to, amount) ==
    IF sender \notin L.kycVerified THEN "KYC verification required"
    ELSE IF to \notin L.kycVerified THEN "Recipient must be KYC verified"
    ELSE IF L.allowances[from][sender] < amount
         THEN "ERC20: insufficient allowance"
    ELSE ERC20TransferRevert(L, from, amount)

TransferFromEffect(L, sender, from, to, amount) ==
    [L EXCEPT !.allowances[from][sender] = @ - amount,
              !.balances = ERC20Transfer(@, from, to, amount)]

\* variant: the quotient rounded up
GetOwnershipPercentageCeil(L, investor) ==
    IF L.balances[investor] = 0 \/ L.tokenInfo.totalSupply = 0 THEN 0
    ELSE (L.balances[investor] * 10000 + L.tokenInfo.totalSupply - 1)
             \div L.tokenInfo.totalSupply

\* getOwnershipPercentage(investor) view
GetOwnershipPercentage(L, investor) ==
    IF L.balances[investor] = 0 \/ L.tokenInfo.totalSupply = 0 THEN 0
    ELSE (L.balances[investor] * 10000) \div L.tokenInfo.totalSupply

\* withdrawBalance() onlyPropertyOwner nonReentrant: the whole balance of
\* the contract goes to the property owner
WithdrawBalanceRevert(L, sender) ==
    IF sender # PropertyOwner THEN "Not the property owner"
    ELSE IF ~(L.tokenEth > 0) THEN "No balance to withdraw"
    ELSE ""

WithdrawBalanceEffect(L) == [L EXCEPT !.tokenEth = 0]

\* setTokenStatus(isActive) onlyPropertyOwner
SetTokenStatusRevert(L, sender) ==
    IF sender # PropertyOwner THEN "Not the property owner" ELSE ""

SetTokenStatusEffect(L, isActive) == [L EXCEPT !.tokenInfo.isActive = isActive]

\* FractionalToken.pause() / unpause(): onlyOwner, then Pausable._pause
\* (whenNotPaused) / _unpause (whenPaused)
TokenPauseRevert(L, sender, pause) ==
    IF sender # Operator THEN "Ownable: caller is not the owner"
    ELSE IF pause /\ L.tokenPaused THEN "Pausable: paused"
    ELSE IF ~pause /\ ~L.tokenPaused THEN "Pausable: not paused"
    ELSE ""

TokenPauseEffect(L, pause) == [L EXCEPT !.tokenPaused = pause]

\* ---- the transactions as actions on the variable `ledger`
SetKYCStatus(sender, user, verified) ==
    /\ SetKYCStatusRevert(ledger, sender) = ""
    /\ ledger' = SetKYCStatusEffect(ledger, user, verified)
    /\ UNCHANGED <<rentVars, histVars>>

UpdateAvailableTokensDirect(sender, newAvailableTokens) ==
    /\ UpdateAvailableTokensDirectRevert(ledger, sender) = ""
    /\ ledger' = UpdateAvailableTokensDirectEffect(ledger, newAvailableTokens)
    /\ UNCHANGED <<rentVars, histVars>>

NFTTransferOwnership(sender, newOwner) ==
    /\ NFTTransferOwnershipRevert(ledger, sender) = ""
    /\ ledger' = NFTTransferOwnershipEffect(ledger, newOwner)
    /\ UNCHANGED <<rentVars, histVars>>

PurchaseTokens(sender, tokenAmount, value) ==
    /\ PurchaseTokensRevert(ledger, sender, tokenAmount, value) = ""
    /\ LogLength(ledger) < MaxInvestments
    /\ ledger' = PurchaseTokensEffect(ledger, sender, tokenAmount, value)
    /\ UNCHANGED <<rentVars, histVars>>

SellTokens(sender, tokenAmount) ==
    /\ SellTokensRevert(ledger, sender, tokenAmount) = ""
    /\ ledger' = SellTokensEffect(ledger, sender, tokenAmount)
    /\ UNCHANGED <<rentVars, histVars>>

Transfer(sender, to, amount) ==
    /\ TransferRevert(ledger, sender, to, amount) = ""
    /\ ledger' = TransferEffect(ledger, sender, to, amount)
    /\ UNCHANGED <<rentVars, histVars>>

Approve(owner, spender, amount) ==
    /\ ledger' = ApproveEffect(ledger, owner, spender, amount)
    /\ UNCHANGED <<rentVars, histVars>>

TransferFrom(sender, from, to, amount) ==
    /\ TransferFromRevert(ledger, sender, from, to, amount) = ""
    /\ ledger' = TransferFromEffect(ledger, sender, from, to, amount)
    /\ UNCHANGED <<rentVars, histVars>>

WithdrawBalance(sender) ==
    /\ WithdrawBalanceRevert(ledger, sender) = ""
    /\ ledger' = WithdrawBalanceEffect(ledger)
    /\ UNCHANGED <<rentVars, histVars>>

SetTokenStatus(sender, isActive) ==
    /\ SetTokenStatusRevert(ledger, sender) = ""
    /\ ledger' = SetTokenStatusEffect(ledger, isActive)
    /\ UNCHANGED <<rentVars, histVars>>

TokenPause(sender, pause) ==
    /\ TokenPauseRevert(ledger, sender, pause) = ""
    /\ ledger' = TokenPauseEffect(ledger, pause)
    /\ UNCHANGED <<rentVars, histVars>>

\* msg.value sent with purchaseTokens(tokenAmount): one below the cost, the
\* cost, one above
Payments(L, tokenAmount) ==
    {tokenAmount * L.tokenInfo.pricePerToken + k : k \in {-1, 0, 1}}

(***************************************************************************)
(* RentDistribution.                                                       *)
(***************************************************************************)
\* the value of a storage slot never written: every field zero
EmptyDistribution ==
    [totalRentCollected |-> 0,
     totalTokensAtDistribution |-> 0,
     isCompleted |-> FALSE,
     investorDistributions |-> [x \in Addresses |-> 0],
     claimed |-> [x \in Addresses |-> FALSE],
     investors |-> <<>>,
     totalDistributed |-> 0,
     platformFee |-> 0,
     propertyOwnerFee |-> 0]

\* no claimDistribution call is at its transfer (ReentrancyGuard _status is
\* _NOT_ENTERED)
NoTransfer ==
    [active |-> FALSE, sender |-> Operator, id |-> 0, amount |-> 0,
     saved |-> EmptyDistribution]

\* registerFractionalToken(propertyId, tokenAddress) onlyOwner
RegisterFractionalTokenRevert(sender) ==
    IF sender # Operator THEN "Ownable: caller is not the owner" ELSE ""

RegisterFractionalToken(sender) ==
    /\ RegisterFractionalTokenRevert(sender) = ""
    /\ propertyToToken' = TRUE
    /\ UNCHANGED <<totalRentCollected, distributions, distributionCounter,
                   platformFeePercentage, managementFeePercentage, rentEth,
                   rentPaused, transferring, ledger, histVars>>

\* variant: depositRent open to every caller
DepositRentRevertAnyone(sender, value) ==
    IF rentPaused THEN "Pausable: paused"
    ELSE IF ~(value > 0) THEN "Rent amount must be greater than 0"
    ELSE IF ~propertyToToken THEN "Fractional token not registered"
    ELSE ""

\* depositRent(propertyId) payable onlyPropertyOwner(propertyId) whenNotPaused
DepositRentRevert(sender, value) ==
    IF sender # PropertyOwner THEN "Not the property owner"
    ELSE IF rentPaused THEN "Pausable: paused"
    ELSE IF ~(value > 0) THEN "Rent amount must be greater than 0"
    ELSE IF ~propertyToToken THEN "Fractional token not registered"
    ELSE ""

DepositRent(sender, value) ==
    /\ DepositRentRevert(sender, value) = ""
    /\ deposits < MaxDeposits
    /\ totalRentCollected' = totalRentCollected + value
    /\ rentEth' = rentEth + value
    /\ deposits' = deposits + 1
    /\ UNCHANGED <<propertyToToken, distributions, distributionCounter,
                   platformFeePercentage, managementFeePercentage, rentPaused,
                   transferring, ledger, distributionAmount, snapshotBalance, ratesAtCreation,
                   payouts, feesPaid>>

\* receive() external payable {}: a plain transfer of value to the
\* contract, from anyone; nothing is recorded
Receive(sender, value) ==
    /\ deposits < MaxDeposits
    /\ rentEth' = rentEth + value
    /\ deposits' = deposits + 1
    /\ UNCHANGED <<propertyToToken, totalRentCollected, distributions,
                   distributionCounter, platformFeePercentage,
                   managementFeePercentage, rentPaused, transferring, ledger,
                   distributionAmount, snapshotBalance, ratesAtCreation,
                   payouts, feesPaid>>

\* rentAmount.mul(platformFeePercentage).div(10000)
PlatformFee(rentAmount) == (rentAmount * platformFeePercentage) \div 10000

\* variant: the management fee taken from what is left after the platform fee
ManagementFeeOnRemainder(rentAmount) ==
    ((rentAmount - PlatformFee(rentAmount)) * managementFeePercentage) \div 10000

\* rentAmount.mul(managementFeePercentage).div(10000)
ManagementFee(rentAmount) == (rentAmount * managementFeePercentage) \div 10000

\* rentAmount.sub(platformFee).sub(managementFee)
DistributionAmount(rentAmount) ==
    rentAmount - PlatformFee(rentAmount) - ManagementFee(rentAmount)

\* variant: the shares held by investors as the denominator
TotalTokensSold == ledger.tokenInfo.totalSupply - ledger.tokenInfo.availableSupply

\* fractionalToken.totalSupply(): the ERC20 supply, minted once in the
\* constructor and never burnt
TotalTokensAtDistribution == ledger.tokenInfo.totalSupply

\* variant: the quotient rounded up
InvestorShareCeil(amount, investorBalance, totalTokens) ==
    (amount * investorBalance + totalTokens - 1) \div totalTokens

\* variant: the division done before the multiplication
InvestorShareDivFirst(amount, investorBalance, totalTokens) ==
    (amount \div totalTokens) * investorBalance

\* distributionAmount.mul(investorBalance).div(totalTokensAtDistribution)
InvestorShare(amount, investorBalance, totalTokens) ==
    (amount * investorBalance) \div totalTokens

\* the loop of createDistribution over fractionalToken.getInvestors(): a
\* slot is written only for an investor whose balance is positive
InvestorDistributions(old, amount, totalTokens) ==
    [x \in Addresses |->
        IF x \in Range(ledger.investors) /\ ledger.balances[x] > 0
        THEN InvestorShare(amount, ledger.balances[x], totalTokens)
        ELSE old[x]]

\* variant: both fees sent to owner()
FeeTransfersToOperator(paid, rentAmount) ==
    [paid EXCEPT ![Operator] = @ + PlatformFee(rentAmount) + ManagementFee(rentAmount)]

\* the two fee transfers that end createDistribution, added to what each
\* payee has received
FeeTransfers(paid, rentAmount) ==
    LET afterPlatform ==
            IF PlatformFee(rentAmount) > 0
            THEN [paid EXCEPT ![Operator] = @ + PlatformFee(rentAmount)]
            ELSE paid
    IN  IF ManagementFee(rentAmount) > 0
        THEN [afterPlatform EXCEPT ![PropertyOwner] = @ + ManagementFee(rentAmount)]
        ELSE afterPlatform

\* variant: createDistribution without its contract balance requirement
CreateDistributionRevertNoBalance(sender, rentAmount) ==
    IF sender # PropertyOwner THEN "Not the property owner"
    ELSE IF rentPaused THEN "Pausable: paused"
    ELSE IF ~(rentAmount > 0) THEN "Rent amount must be greater than 0"
    ELSE IF ~propertyToToken THEN "Fractional token not registered"
    ELSE IF DistributionAmount(rentAmount) < 0 THEN "SafeMath: subtraction overflow"
    ELSE ""

\* createDistribution(propertyId, rentAmount) onlyPropertyOwner(propertyId)
\* whenNotPaused nonReentrant
CreateDistributionRevert(sender, rentAmount) ==
    IF sender # PropertyOwner THEN "Not the property owner"
    ELSE IF rentPaused THEN "Pausable: paused"
    ELSE IF ~(rentAmount > 0) THEN "Rent amount must be greater than 0"
    ELSE IF ~(rentEth >= rentAmount) THEN "Insufficient contract balance"
    ELSE IF ~propertyToToken THEN "Fractional token not registered"
    ELSE IF DistributionAmount(rentAmount) < 0 THEN "SafeMath: subtraction overflow"
    ELSE ""

\* the struct after the writes of createDistribution; claimed and
\* totalDistributed are not written and keep what the slot held
NewDistribution(old, rentAmount) ==
    [totalRentCollected |-> rentAmount,
     totalTokensAtDistribution |-> TotalTokensAtDistribution,
     isCompleted |-> FALSE,
     investorDistributions |->
         InvestorDistributions(old.investorDistributions,
                               DistributionAmount(rentAmount),
                               TotalTokensAtDistribution),
     claimed |-> old.claimed,
     investors |-> ledger.investors,
     totalDistributed |-> old.totalDistributed,
     platformFee |-> PlatformFee(rentAmount),
     propertyOwnerFee |-> ManagementFee(rentAmount)]

CreateDistribution(sender, rentAmount) ==
    LET id == distributionCounter IN
    /\ CreateDistributionRevert(sender, rentAmount) = ""
    /\ id \in DistributionIds
    /\ distributionCounter' = distributionCounter + 1
    /\ distributions' = [distributions EXCEPT ![id] = NewDistribution(@, rentAmount)]
    \* payable(owner()).transfer(platformFee) and
    \* payable(property.propertyOwner).transfer(managementFee)
    /\ rentEth' = rentEth - PlatformFee(rentAmount) - ManagementFee(rentAmount)
    /\ feesPaid' = FeeTransfers(feesPaid, rentAmount)
    /\ distributionAmount' = [distributionAmount EXCEPT ![id] =
                                  DistributionAmount(rentAmount)]
    /\ snapshotBalance' = [snapshotBalance EXCEPT ![id] =
           [x \in Addresses |->
               IF x \in Range(ledger.investors) THEN ledger.balances[x] ELSE 0]]
    /\ ratesAtCreation' = [ratesAtCreation EXCEPT ![id] =
           [platform |-> platformFeePercentage,
            management |-> managementFeePercentage]]
    /\ UNCHANGED <<propertyToToken, totalRentCollected, platformFeePercentage,
                   managementFeePercentage, rentPaused, transferring, ledger, payouts,
                   deposits>>

\* _checkDistributionCompletion(distributionId)
AllClaimed(dist) ==
    \A i \in 1 .. Len(dist.investors) :
        ~(dist.investorDistributions[dist.investors[i]] > 0
          /\ ~dist.claimed[dist.investors[i]])

CheckDistributionCompletion(dist) ==
    IF AllClaimed(dist) /\ ~dist.isCompleted
    THEN [dist EXCEPT !.isCompleted = TRUE]
    ELSE dist

\* variant: claimDistribution without its claimed[msg.sender] requirement
ClaimDistributionRevertNoFlag(sender, id) ==
    IF rentPaused THEN "Pausable: paused"
    ELSE IF distributions[id].isCompleted THEN "Distribution already completed"
    ELSE IF ~(distributions[id].investorDistributions[sender] > 0)
         THEN "No distribution available"
    ELSE IF rentEth < distributions[id].investorDistributions[sender]
         THEN "transfer failed"
    ELSE ""

\* variant: claimDistribution without its amount > 0 requirement
ClaimDistributionRevertNoAmount(sender, id) ==
    IF rentPaused THEN "Pausable: paused"
    ELSE IF distributions[id].isCompleted THEN "Distribution already completed"
    ELSE IF distributions[id].claimed[sender] THEN "Already claimed"
    ELSE IF rentEth < distributions[id].investorDistributions[sender]
         THEN "transfer failed"
    ELSE ""

\* claimDistribution(distributionId) whenNotPaused nonReentrant
ClaimDistributionRevert(sender, id) ==
    IF rentPaused THEN "Pausable: paused"
    ELSE IF distributions[id].isCompleted THEN "Distribution already completed"
    ELSE IF distributions[id].claimed[sender] THEN "Already claimed"
    ELSE IF ~(distributions[id].investorDistributions[sender] > 0)
         THEN "No distribution available"
    ELSE IF rentEth < distributions[id].investorDistributions[sender]
         THEN "transfer failed"
    ELSE ""

\* variant: the claimed flag set without adding to totalDistributed
MarkClaimedNoTotal(dist, investor) ==
    [dist EXCEPT !.claimed[investor] = TRUE]

\* variant: the allocation cleared when it is paid
MarkClaimedClearing(dist, investor) ==
    [dist EXCEPT !.claimed[investor] = TRUE,
                 !.totalDistributed = @ + dist.investorDistributions[investor],
                 !.investorDistributions[investor] = 0]

\* the two storage writes that precede the transfer to the payee
MarkClaimed(dist, investor) ==
    [dist EXCEPT !.claimed[investor] = TRUE,
                 !.totalDistributed = @ + dist.investorDistributions[investor]]

ClaimDistribution(sender, id) ==
    LET amount == distributions[id].investorDistributions[sender] IN
    /\ ClaimDistributionRevert(sender, id) = ""
    /\ distributions' = [distributions EXCEPT ![id] =
           CheckDistributionCompletion(MarkClaimed(@, sender))]
    /\ rentEth' = rentEth - amount
    /\ payouts' = [payouts EXCEPT ![id][sender] = @ + 1]
    /\ UNCHANGED <<propertyToToken, totalRentCollected, distributionCounter,
                   platformFeePercentage, managementFeePercentage, rentPaused,
                   transferring, ledger, distributionAmount, snapshotBalance, ratesAtCreation,
                   deposits, feesPaid>>

\* variant: the batch loop paying every investor with a positive allocation
BatchPaysIgnoringClaimed(dist, investor) ==
    dist.investorDistributions[investor] > 0

\* the test of the batchDistribute loop: is this investor paid in this pass
BatchPays(dist, investor) ==
    ~dist.claimed[investor] /\ dist.investorDistributions[investor] > 0

\* the loop of batchDistribute from position i on; st.failed is set when a
\* transfer exceeds the contract balance (the whole call then reverts)
RECURSIVE BatchLoop(_, _)
BatchLoop(st, i) ==
    IF i > Len(st.dist.investors) THEN st
    ELSE LET investor == st.dist.investors[i]
             amount == st.dist.investorDistributions[investor]
         IN  IF BatchPays(st.dist, investor)
             THEN IF st.eth < amount
                  THEN [st EXCEPT !.failed = TRUE]
                  ELSE BatchLoop([dist |-> MarkClaimed(st.dist, investor),
                                  eth |-> st.eth - amount,
                                  paid |-> [st.paid EXCEPT ![investor] = @ + 1],
                                  failed |-> FALSE], i + 1)
             ELSE BatchLoop(st, i + 1)

BatchResult(id) ==
    BatchLoop([dist |-> distributions[id], eth |-> rentEth,
               paid |-> payouts[id], failed |-> FALSE], 1)

\* batchDistribute(distributionId) onlyOwner whenNotPaused nonReentrant
BatchDistributeRevert(sender, id) ==
    IF sender # Operator THEN "Ownable: caller is not the owner"
    ELSE IF rentPaused THEN "Pausable: paused"
    ELSE IF distributions[id].isCompleted THEN "Distribution already completed"
    ELSE IF BatchResult(id).failed THEN "transfer failed"
    ELSE ""

BatchDistribute(sender, id) ==
    LET st == BatchResult(id) IN
    /\ BatchDistributeRevert(sender, id) = ""
    /\ distributions' = [distributions EXCEPT ![id] =
                            CheckDistributionCompletion(st.dist)]
    /\ rentEth' = st.eth
    /\ payouts' = [payouts EXCEPT ![id] = st.paid]
    /\ UNCHANGED <<propertyToToken, totalRentCollected, distributionCounter,
                   platformFeePercentage, managementFeePercentage, rentPaused,
                   transferring, ledger, distributionAmount, snapshotBalance, ratesAtCreation,
                   deposits, feesPaid>>

\* nonReentrant: ReentrancyGuard rejects a call that enters while another
\* guarded call of the contract has not returned
NonReentrantRevert ==
    IF transferring.active THEN "ReentrancyGuard: reentrant call" ELSE ""

\* claimDistribution entered from the payee's code while the transfer of
\* another claimDistribution is under way: whenNotPaused, nonReentrant,
\* then the requires
ReentrantClaimRevert(sender, id) ==
    IF rentPaused THEN "Pausable: paused"
    ELSE IF NonReentrantRevert # "" THEN NonReentrantRevert
    ELSE ClaimDistributionRevert(sender, id)

\* batchDistribute entered the same way: onlyOwner, whenNotPaused,
\* nonReentrant, then the requires
ReentrantBatchRevert(sender, id) ==
    IF sender # Operator THEN "Ownable: caller is not the owner"
    ELSE IF rentPaused THEN "Pausable: paused"
    ELSE IF NonReentrantRevert # "" THEN NonReentrantRevert
    ELSE BatchDistributeRevert(sender, id)

\* variant: claimDistribution with no storage write before its transfer
ClaimWritesNothingBeforeTransfer(dist, investor) == dist

\* claimDistribution from its requires to its transfer: claimed[msg.sender]
\* and totalDistributed are written
ClaimWritesBeforeTransfer(dist, investor) == MarkClaimed(dist, investor)

\* claimDistribution up to payable(msg.sender).transfer(amount): control
\* passes to the payee
ClaimBegin(sender, id) ==
    /\ NonReentrantRevert = ""
    /\ ClaimDistributionRevert(sender, id) = ""
    /\ distributions' = [distributions EXCEPT ![id] =
                            ClaimWritesBeforeTransfer(@, sender)]
    /\ transferring' = [active |-> TRUE, sender |-> sender, id |-> id,
                        amount |-> distributions[id].investorDistributions[sender],
                        saved |-> distributions[id]]
    /\ UNCHANGED <<propertyToToken, totalRentCollected, distributionCounter,
                   platformFeePercentage, managementFeePercentage, rentEth,
                   rentPaused, ledger, histVars>>

\* the payee accepted the transfer: the event is emitted and
\* _checkDistributionCompletion runs
ClaimTransferred ==
    /\ transferring.active
    /\ rentEth' = rentEth - transferring.amount
    /\ payouts' = [payouts EXCEPT ![transferring.id][transferring.sender] = @ + 1]
    /\ distributions' = [distributions EXCEPT ![transferring.id] =
                            CheckDistributionCompletion(@)]
    /\ transferring' = NoTransfer
    /\ UNCHANGED <<propertyToToken, totalRentCollected, distributionCounter,
                   platformFeePercentage, managementFeePercentage, rentPaused,
                   ledger, distributionAmount, snapshotBalance, ratesAtCreation,
                   deposits, feesPaid>>

\* the payee's code rejected the transfer: transfer() reverts and with it
\* the whole claimDistribution call
ClaimTransferFailed ==
    /\ transferring.active
    /\ distributions' = [distributions EXCEPT ![transferring.id] =
                            transferring.saved]
    /\ transferring' = NoTransfer
    /\ UNCHANGED <<propertyToToken, totalRentCollected, distributionCounter,
                   platformFeePercentage, managementFeePercentage, rentEth,
                   rentPaused, ledger, histVars>>

\* variant: updateFees without its ceiling on the management fee
UpdateFeesRevertNoManagementCap(sender, platform, management) ==
    IF sender # Operator THEN "Ownable: caller is not the owner"
    ELSE IF ~(platform <= 1000) THEN "Platform fee too high"
    ELSE ""

\* updateFees(_platformFeePercentage, _managementFeePercentage) onlyOwner
UpdateFeesRevert(sender, platform, management) ==
    IF sender # Operator THEN "Ownable: caller is not the owner"
    ELSE IF ~(platform <= 1000) THEN "Platform fee too high"
    ELSE IF ~(management <= 2000) THEN "Management fee too high"
    ELSE ""

UpdateFees(sender, platform, management) ==
    /\ UpdateFeesRevert(sender, platform, management) = ""
    /\ platformFeePercentage' = platform
    /\ managementFeePercentage' = management
    /\ UNCHANGED <<propertyToToken, totalRentCollected, distributions,
                   distributionCounter, rentEth, rentPaused, transferring, ledger, histVars>>

\* RentDistribution.emergencyWithdraw() onlyOwner nonReentrant
EmergencyWithdrawRevert(sender) ==
    IF sender # Operator THEN "Ownable: caller is not the owner"
    ELSE IF ~(rentEth > 0) THEN "No balance to withdraw"
    ELSE ""

EmergencyWithdraw(sender) ==
    /\ EmergencyWithdrawRevert(sender) = ""
    /\ rentEth' = 0
    /\ UNCHANGED <<propertyToToken, totalRentCollected, distributions,
                   distributionCounter, platformFeePercentage,
                   managementFeePercentage, rentPaused, transferring, ledger, histVars>>

\* RentDistribution.pause() / unpause() onlyOwner
RentPauseRevert(sender, pause) ==
    IF sender # Operator THEN "Ownable: caller is not the owner"
    ELSE IF pause /\ rentPaused THEN "Pausable: paused"
    ELSE IF ~pause /\ ~rentPaused THEN "Pausable: not paused"
    ELSE ""

RentPause(sender, pause) ==
    /\ RentPauseRevert(sender, pause) = ""
    /\ rentPaused' = pause
    /\ UNCHANGED <<propertyToToken, totalRentCollected, distributions,
                   distributionCounter, platformFeePercentage,
                   managementFeePercentage, rentEth, transferring, ledger, histVars>>

\* RentDistribution(_propertyNFTAddress) constructor
RentConstructed ==
    /\ propertyToToken = FALSE
    /\ totalRentCollected = 0
    /\ distributions = [d \in DistributionIds |-> EmptyDistribution]
    /\ distributionCounter = 0
    /\ platformFeePercentage = 250
    /\ managementFeePercentage = 500
    /\ rentEth = 0
    /\ rentPaused = FALSE
    /\ transferring = NoTransfer
    /\ distributionAmount = [d \in DistributionIds |-> 0]
    /\ snapshotBalance = [d \in DistributionIds |-> [x \in Addresses |-> 0]]
    /\ ratesAtCreation = [d \in DistributionIds |-> [platform |-> 0, management |-> 0]]
    /\ payouts = [d \in DistributionIds |-> [x \in Addresses |-> 0]]
    /\ deposits = 0
    /\ feesPaid = [x \in Callers |-> 0]

(***************************************************************************)
(* SpecLedger: the ownership ledger from construction on.  The operator    *)
(* sets KYC flags (also for the token contract's own address) and hands    *)
(* PropertyNFT to the token contract, which must own it for                *)
(* updateAvailableTokens to be accepted; investors then trade.             *)
(***************************************************************************)
InitLedger ==
    /\ ledger = Constructed
    /\ RentConstructed

LedgerSetup ==
    \/ \E sender \in Callers, user \in Investors \cup {TokenAddr}, verified \in BOOLEAN :
           SetKYCStatus(sender, user, verified)
    \/ \E sender \in Callers : NFTTransferOwnership(sender, TokenAddr)
    \/ \E sender \in Callers, newAvailableTokens \in RegistryCounts :
           UpdateAvailableTokensDirect(sender, newAvailableTokens)

LedgerTrade ==
    \/ \E sender \in Investors, tokenAmount \in PurchaseAmounts :
           \E value \in Payments(ledger, tokenAmount) :
               PurchaseTokens(sender, tokenAmount, value)
    \/ \E sender \in Investors, tokenAmount \in ShareAmounts :
           SellTokens(sender, tokenAmount)
    \/ \E sender \in Investors, to \in Investors \cup {TokenAddr},
          amount \in ShareAmounts :
           Transfer(sender, to, amount)
    \/ \E owner \in Investors, spender \in Spenders, amount \in ApproveAmounts :
           /\ spender # owner
           /\ Approve(owner, spender, amount)
    \/ \E sender \in Investors, from \in Addresses, to \in Investors,
          amount \in ShareAmounts :
           TransferFrom(sender, from, to, amount)

LedgerAdmin ==
    \/ \E sender \in Callers, isActive \in BOOLEAN : SetTokenStatus(sender, isActive)
    \/ \E sender \in Callers, pause \in BOOLEAN : TokenPause(sender, pause)
    \/ \E sender \in Callers : WithdrawBalance(sender)

NextLedger == LedgerSetup \/ LedgerTrade \/ LedgerAdmin

SpecLedger == InitLedger /\ [][NextLedger]_vars

(***************************************************************************)
(* Spec: the distribution engine.  createDistribution only reads the       *)
(* ledger (investors, balances, totalSupply) and the other entry points of *)
(* RentDistribution do not read it at all, so a run starts from any ledger *)
(* that MaxTrades accepted trades produce from the configured deployment   *)
(* and keeps it fixed.                                                     *)
(***************************************************************************)
RECURSIVE VerifyAll(_, _)
VerifyAll(L, S) ==
    IF S = {} THEN L
    ELSE LET x == CHOOSE y \in S : TRUE
         IN  VerifyAll(SetKYCStatusEffect(L, x, TRUE), S \ {x})

\* the deployment after the operator verified the investors and handed
\* PropertyNFT to the token contract
Configured == NFTTransferOwnershipEffect(VerifyAll(Constructed, Investors), TokenAddr)

TradeSuccessors(L) ==
    {PurchaseTokensEffect(L, x[1], x[2], x[2] * L.tokenInfo.pricePerToken) :
        x \in {y \in Investors \X ShareAmounts :
                 /\ LogLength(L) < MaxInvestments
                 /\ PurchaseTokensRevert(L, y[1], y[2],
                        y[2] * L.tokenInfo.pricePerToken) = ""}}
    \cup
    {SellTokensEffect(L, x[1], x[2]) :
        x \in {y \in Investors \X ShareAmounts :
                 SellTokensRevert(L, y[1], y[2]) = ""}}
    \cup
    {TransferEffect(L, x[1], x[2], x[3]) :
        x \in {y \in Investors \X Investors \X ShareAmounts :
                 TransferRevert(L, y[1], y[2], y[3]) = ""}}

RECURSIVE LedgersAfter(_, _)
LedgersAfter(S, n) ==
    IF n = 0 THEN S
    ELSE LedgersAfter(S \cup UNION {TradeSuccessors(L) : L \in S}, n - 1)

Init ==
    /\ ledger \in LedgersAfter({Configured}, MaxTrades)
    /\ RentConstructed

Distribute ==
    \/ \E sender \in Callers : RegisterFractionalToken(sender)
    \/ \E sender \in Callers, value \in DepositAmounts :
           DepositRent(sender, value)
    \/ \E sender \in Callers, rentAmount \in RentAmounts :
           /\ distributionCounter < MaxDistributions
           /\ CreateDistribution(sender, rentAmount)
    \/ \E sender \in Callers, id \in DistributionIds :
           ClaimDistribution(sender, id)
    \/ \E sender \in Callers, id \in DistributionIds :
           BatchDistribute(sender, id)

RentAdmin ==
    \/ \E sender \in Callers,
          platform \in PlatformFeeChoices, management \in ManagementFeeChoices :
           UpdateFees(sender, platform, management)
    \/ \E sender \in Callers : EmergencyWithdraw(sender)
    \/ \E sender \in Callers, pause \in BOOLEAN :
           RentPause(sender, pause)

Next == Distribute \/ RentAdmin

Spec == Init /\ [][Next]_vars

(***************************************************************************)
(* SpecSnapshot: trading goes on while rent is distributed.  The run       *)
(* starts from the configured deployment; investors buy, sell and transfer *)
(* shares between distributions, the operator changes the fee rates, and   *)
(* every id of DistributionIds may be used.                                *)
(***************************************************************************)
\* share amounts sold and transferred, and rent amounts distributed, in a
\* run of SpecSnapshot
SnapshotLots == {400}
SnapshotRents == {1000}

InitSnapshot ==
    /\ ledger = Configured
    /\ RentConstructed

SnapshotTrade ==
    \/ \E sender \in Investors, tokenAmount \in ShareAmounts :
           PurchaseTokens(sender, tokenAmount,
                          tokenAmount * ledger.tokenInfo.pricePerToken)
    \/ \E sender \in Investors, tokenAmount \in SnapshotLots :
           SellTokens(sender, tokenAmount)
    \/ \E sender \in Investors, to \in Investors, amount \in SnapshotLots :
           Transfer(sender, to, amount)

SnapshotDistribute ==
    \/ RegisterFractionalToken(Operator)
    \/ \E value \in DepositAmounts : DepositRent(PropertyOwner, value)
    \/ \E rentAmount \in SnapshotRents :
           CreateDistribution(PropertyOwner, rentAmount)
    \/ \E sender \in Investors, id \in DistributionIds :
           ClaimDistribution(sender, id)
    \/ \E id \in DistributionIds : BatchDistribute(Operator, id)
    \/ \E platform \in PlatformFeeChoices, management \in ManagementFeeChoices :
           UpdateFees(Operator, platform, management)

NextSnapshot == SnapshotTrade \/ SnapshotDistribute

SpecSnapshot == InitSnapshot /\ [][NextSnapshot]_vars

(***************************************************************************)
(* SpecOwnership: tokens of other sizes.  The constructor takes any        *)
(* _totalSupply, zero included; investors trade single shares of a token   *)
(* whose supply does not divide 10000, which is where the rounding of      *)
(* getOwnershipPercentage shows.                                           *)
(***************************************************************************)
\* _totalSupply of the deployments, and the share amounts traded in them
SupplyChoices == {0, 3, 7}
OwnershipLots == {1, 2, 3}

\* FractionalToken(..., _totalSupply, ...) constructor: tokenInfo and the
\* mint to address(this)
ConstructedWith(supply) ==
    [Constructed EXCEPT !.balances[TokenAddr] = supply,
                        !.tokenInfo.totalSupply = supply,
                        !.tokenInfo.availableSupply = supply]

InitOwnership ==
    /\ ledger \in {NFTTransferOwnershipEffect(
                       VerifyAll(ConstructedWith(supply), Investors), TokenAddr) :
                   supply \in SupplyChoices}
    /\ RentConstructed

NextOwnership ==
    \/ \E sender \in Investors, tokenAmount \in OwnershipLots :
           PurchaseTokens(sender, tokenAmount,
                          tokenAmount * ledger.tokenInfo.pricePerToken)
    \/ \E sender \in Investors, tokenAmount \in OwnershipLots :
           SellTokens(sender, tokenAmount)
    \/ \E sender \in Investors, to \in Investors, amount \in OwnershipLots :
           Transfer(sender, to, amount)

SpecOwnership == InitOwnership /\ [][NextOwnership]_vars

(***************************************************************************)
(* SpecReentrant: claimDistribution in two steps.  Between the writes of   *)
(* the call and the return of its transfer the payee's code runs; no other *)
(* transaction does.  The transfer then succeeds, or the payee makes it    *)
(* fail and the call is undone.                                            *)
(***************************************************************************)
NextReentrant ==
    \/ /\ ~transferring.active
       /\ RegisterFractionalToken(Operator)
    \/ \E value \in DepositAmounts :
           /\ ~transferring.active
           /\ DepositRent(PropertyOwner, value)
    \/ \E rentAmount \in RentAmounts :
           /\ ~transferring.active
           /\ distributionCounter < MaxDistributions
           /\ CreateDistribution(PropertyOwner, rentAmount)
    \/ \E sender \in Callers, id \in DistributionIds :
           ClaimBegin(sender, id)
    \/ \E id \in DistributionIds :
           /\ ~transferring.active
           /\ BatchDistribute(Operator, id)
    \/ ClaimTransferred
    \/ ClaimTransferFailed

SpecReentrant == Init /\ [][NextReentrant]_vars

(***************************************************************************)
(* SpecCustody: where the funds of RentDistribution come from.  Besides    *)
(* depositRent the contract accepts plain transfers of value, which        *)
(* createDistribution can distribute like deposited rent.                  *)
(***************************************************************************)
NextCustody ==
    \/ RegisterFractionalToken(Operator)
    \/ \E value \in DepositAmounts : DepositRent(PropertyOwner, value)
    \/ \E sender \in Callers, value \in DepositAmounts : Receive(sender, value)
    \/ \E rentAmount \in RentAmounts :
           /\ distributionCounter < MaxDistributions
           /\ CreateDistribution(PropertyOwner, rentAmount)
    \/ \E sender \in Callers, id \in DistributionIds :
           ClaimDistribution(sender, id)
    \/ \E id \in DistributionIds : BatchDistribute(Operator, id)

SpecCustody == Init /\ [][NextCustody]_vars

(***************************************************************************)
(* Properties.                                                             *)
(***************************************************************************)
Created == 0 .. distributionCounter - 1

\* the holders of a distribution: the entries of its investor list
HoldersOf(d) == Range(distributions[d].investors)

\* sum of the allocations written for a distribution
AllocationSum(d) == SumOver(distributions[d].investorDistributions, Addresses)

\* the holders of a distribution that have a positive allocation
Allocated(d) == {h \in Addresses : distributions[d].investorDistributions[h] > 0}

\* C1 (SpecLedger): conservation of shares.  In every reachable state the
\* balances of all holders (every account other than the contract's own
\* treasury balance) plus availableShares equal totalShares.
C1_Conservation ==
    SumOver(ledger.balances, Addresses \ {TokenAddr})
        + ledger.tokenInfo.availableSupply
    = ledger.tokenInfo.totalSupply

\* C2 (Spec): exactly-once payout.  For every distribution and holder the
\* allocation is paid at most once over all claimDistribution and
\* batchDistribute calls, and a paid holder carries the claimed flag.
C2_ExactlyOncePayout ==
    \A d \in DistributionIds, h \in Addresses :
        /\ payouts[d][h] <= 1
        /\ payouts[d][h] = 1 => distributions[d].claimed[h]

\* both holders of a distribution were paid and the distribution is closed
C2_Witness ==
    \E d \in Created :
        /\ payouts[d]["a"] = 1
        /\ payouts[d]["b"] = 1
        /\ distributions[d].isCompleted

\* C3 (Spec): completion.  A created distribution is completed if and only
\* if every holder with a positive allocation has claimed, the state right
\* after createDistribution included.
C3_CompletedIffAllClaimed ==
    \A d \in Created :
        distributions[d].isCompleted
            <=> \A h \in Allocated(d) : distributions[d].claimed[h]

\* C4 (Spec): the completed flag is one-way.  For every distribution id, no
\* step turns a true isCompleted into false.
C4_CompletedOneWay ==
    [][\A d \in DistributionIds :
           distributions[d].isCompleted => distributions'[d].isCompleted]_vars

\* C5 (Spec): claimed-total accuracy.  The totalDistributed of every
\* distribution is the sum of the allocations of its claimed holders.
C5_TotalClaimedAccurate ==
    \A d \in DistributionIds :
        distributions[d].totalDistributed =
            SumOver([h \in Addresses |->
                        IF distributions[d].claimed[h]
                        THEN distributions[d].investorDistributions[h]
                        ELSE 0], Addresses)

\* one holder of a two-holder distribution has claimed, the other has not
C5_Witness ==
    \E d \in Created :
        /\ distributions[d].claimed["a"]
        /\ ~distributions[d].claimed["b"]
        /\ distributions[d].investorDistributions["b"] > 0
        /\ distributions[d].totalDistributed > 0

\* C6 (Spec): fee exactness.  For every created distribution the platform
\* fee and the manager fee are the floors of gross x rate / 10000 at the
\* rates in force at creation, the two fees and the net amount add up to
\* the gross amount, and the net amount is not negative.
C6_FeeExactness ==
    \A d \in Created :
        LET gross == distributions[d].totalRentCollected
            pf == distributions[d].platformFee
            mf == distributions[d].propertyOwnerFee
            net == distributionAmount[d]
        IN  /\ pf * 10000 <= gross * ratesAtCreation[d].platform
            /\ gross * ratesAtCreation[d].platform < (pf + 1) * 10000
            /\ mf * 10000 <= gross * ratesAtCreation[d].management
            /\ gross * ratesAtCreation[d].management < (mf + 1) * 10000
            /\ pf + mf + net = gross
            /\ net >= 0

\* a distribution of 1000 at the default rates: fees 25 and 50, net 925
C6_Witness ==
    \E d \in Created :
        /\ distributions[d].totalRentCollected = 1000
        /\ ratesAtCreation[d] = [platform |-> 250, management |-> 500]
        /\ distributions[d].platformFee = 25
        /\ distributions[d].propertyOwnerFee = 50
        /\ distributionAmount[d] = 925

\* the balances and amounts of the worked example: A holds 600 and B 400 of
\* 1000 shares, gross 1000 at 250 and 500 basis points
ScenarioA(d) ==
    /\ ledger.tokenInfo.totalSupply = 1000
    /\ snapshotBalance[d]["a"] = 600
    /\ snapshotBalance[d]["b"] = 400
    /\ distributions[d].totalRentCollected = 1000
    /\ ratesAtCreation[d] = [platform |-> 250, management |-> 500]

\* C7 (Spec): pro-rata allocation.  The denominator of every created
\* distribution is the total share count of the asset, and every registered
\* investor with a positive balance at creation is allocated
\* floor(net x balance / denominator); in the worked example net is 925,
\* A gets 555, B gets 370 and nothing is left over.
C7_ProRataAllocation ==
    \A d \in Created :
        LET denom == distributions[d].totalTokensAtDistribution
            net == distributionAmount[d]
        IN  /\ denom = ledger.tokenInfo.totalSupply
            /\ \A h \in HoldersOf(d) :
                   snapshotBalance[d][h] > 0 =>
                       LET alloc == distributions[d].investorDistributions[h]
                       IN  /\ alloc * denom <= net * snapshotBalance[d][h]
                           /\ net * snapshotBalance[d][h] < (alloc + 1) * denom
            /\ ScenarioA(d) =>
                   /\ net = 925
                   /\ distributions[d].investorDistributions["a"] = 555
                   /\ distributions[d].investorDistributions["b"] = 370
                   /\ net - AllocationSum(d) = 0

\* the worked example has been created
C7_Witness == \E d \in Created : ScenarioA(d)

\* C8 (Spec): no over-allocation.  The allocations of every created
\* distribution add up to at most its net amount.
C8_NoOverAllocation ==
    \A d \in Created : AllocationSum(d) <= distributionAmount[d]

\* a distribution whose allocations are positive and leave a remainder
C8_Witness ==
    \E d \in Created :
        /\ AllocationSum(d) > 0
        /\ AllocationSum(d) < distributionAmount[d]

Funded(d) == {h \in HoldersOf(d) : snapshotBalance[d][h] > 0}

C10_RepeatClaimAlreadyClaimed ==
    \A d \in DistributionIds, h \in Addresses :
        distributions[d].claimed[h] =>
            ClaimDistributionRevert(h, d) = "Already claimed"

\* C10 amended (Spec): once a holder has claimed from a distribution, every
\* later claimDistribution by that holder is rejected and changes nothing;
\* the reason is "Already claimed" exactly when the contract is not paused
\* and the distribution is not yet completed, and the pause or the
\* completion is reported otherwise.
C10_RepeatClaimRejected ==
    \A d \in DistributionIds, h \in Addresses :
        distributions[d].claimed[h] =>
            /\ ClaimDistributionRevert(h, d) \in
                   {"Pausable: paused", "Distribution already completed",
                    "Already claimed"}
            /\ ClaimDistributionRevert(h, d) = "Already claimed"
                   <=> (~rentPaused /\ ~distributions[d].isCompleted)
            /\ ~ENABLED ClaimDistribution(h, d)

\* a holder has claimed from a distribution that is still open, and a repeat
\* claim is answered with "Already claimed"
C10_Witness ==
    \E d \in Created, h \in Addresses :
        /\ payouts[d][h] = 1
        /\ ~distributions[d].isCompleted
        /\ ClaimDistributionRevert(h, d) = "Already claimed"

\* C11 as stated (Spec): claimDistribution by a holder whose allocation in
\* a created distribution is zero fails with "No distribution available".
C11_ZeroAllocationNoAllocation ==
    \A d \in Created, h \in Addresses :
        distributions[d].investorDistributions[h] = 0 =>
            ClaimDistributionRevert(h, d) = "No distribution available"

\* C11 amended (Spec): claimDistribution by a holder whose allocation in
\* the distribution is zero is rejected and changes nothing; the reason is
\* "No distribution available" exactly when the contract is not paused and
\* the distribution is not completed, and the pause or the completion is
\* reported otherwise.
C11_ZeroAllocationRejected ==
    \A d \in DistributionIds, h \in Addresses :
        distributions[d].investorDistributions[h] = 0 =>
            /\ ClaimDistributionRevert(h, d) \in
                   {"Pausable: paused", "Distribution already completed",
                    "No distribution available"}
            /\ ClaimDistributionRevert(h, d) = "No distribution available"
                   <=> (~rentPaused /\ ~distributions[d].isCompleted)
            /\ ~ENABLED ClaimDistribution(h, d)

\* a holder of shares without an allocation, next to a holder with one, is
\* answered with "No distribution available"
C11_Witness ==
    \E d \in Created, h \in Addresses :
        /\ ledger.balances[h] > 0
        /\ distributions[d].investorDistributions[h] = 0
        /\ \E g \in Addresses : distributions[d].investorDistributions[g] > 0
        /\ ClaimDistributionRevert(h, d) = "No distribution available"

\* C12 (SpecLedger): purchaseTokens is rejected, and no purchase step is
\* possible, whenever the amount is not positive, exceeds availableSupply,
\* the payment is below amount x pricePerToken, the token is inactive or
\* the buyer is not KYC-verified; an amount above availableSupply from an
\* admissible buyer is answered with "Not enough tokens available".
C12_PurchaseRejected ==
    \A sender \in Callers, tokenAmount \in PurchaseAmounts :
        \A value \in Payments(ledger, tokenAmount) \cap Nat :
            /\ (\/ tokenAmount <= 0
                \/ tokenAmount > ledger.tokenInfo.availableSupply
                \/ value < tokenAmount * ledger.tokenInfo.pricePerToken
                \/ ~ledger.tokenInfo.isActive
                \/ sender \notin ledger.kycVerified)
               => /\ PurchaseTokensRevert(ledger, sender, tokenAmount, value) # ""
                  /\ ~ENABLED PurchaseTokens(sender, tokenAmount, value)
            /\ (/\ sender \in ledger.kycVerified
                /\ ledger.tokenInfo.isActive
                /\ ~ledger.tokenPaused
                /\ tokenAmount > ledger.tokenInfo.availableSupply)
               => PurchaseTokensRevert(ledger, sender, tokenAmount, value)
                      = "Not enough tokens available"

\* a verified buyer asks for 1500 shares while all 1000 are available
C12_Witness ==
    /\ "a" \in ledger.kycVerified
    /\ ledger.nftOwner = TokenAddr
    /\ ledger.tokenInfo.availableSupply = TotalSupply
    /\ PurchaseTokensRevert(ledger, "a", 1500,
                            1500 * ledger.tokenInfo.pricePerToken)
           = "Not enough tokens available"

\* C13 (SpecLedger): an accepted purchaseTokens of tokenAmount, in one
\* step, lowers availableSupply by tokenAmount, raises the buyer's balance
\* by tokenAmount, appends exactly one entry to the buyer's investment log
\* and none to another, adds the buyer to the investor list iff the buyer is
\* not in it, and keeps exactly tokenAmount x pricePerToken of the payment.
C13_PurchaseEffect ==
    [][\A sender \in Investors, tokenAmount \in PurchaseAmounts :
         \A value \in Payments(ledger, tokenAmount) :
           PurchaseTokens(sender, tokenAmount, value) =>
             /\ ledger'.tokenInfo.availableSupply
                    = ledger.tokenInfo.availableSupply - tokenAmount
             /\ ledger'.balances[sender] = ledger.balances[sender] + tokenAmount
             /\ \A x \in Addresses \ {sender, TokenAddr} :
                    ledger'.balances[x] = ledger.balances[x]
             /\ Len(ledger'.investments[sender])
                    = Len(ledger.investments[sender]) + 1
             /\ ledger'.investments[sender][Len(ledger'.investments[sender])].amount
                    = tokenAmount
             /\ \A x \in Addresses \ {sender} :
                    ledger'.investments[x] = ledger.investments[x]
             /\ ledger'.investors =
                    IF sender \in Range(ledger.investors)
                    THEN ledger.investors
                    ELSE Append(ledger.investors, sender)
             /\ ledger'.tokenEth
                    = ledger.tokenEth + tokenAmount * ledger.tokenInfo.pricePerToken
      ]_vars

\* a buyer already on the investor list has bought a second time
C13_Witness ==
    /\ Len(ledger.investments["a"]) = 2
    /\ ledger.investors = <<"a">>
    /\ ledger.balances["a"] = 1000
    /\ ledger.tokenInfo.availableSupply = ledger.tokenInfo.totalSupply - 1000

\* C14 (SpecLedger): sellTokens is rejected whenever the token is inactive.
C14_SellRejectedWhenInactive ==
    ~ledger.tokenInfo.isActive =>
        \A sender \in Callers, tokenAmount \in ShareAmounts :
            SellTokensRevert(ledger, sender, tokenAmount) # ""

\* C15 (SpecLedger): sellTokens is rejected, and no sale step is possible,
\* when the holder's balance is below tokenAmount or the contract's funds
\* are below tokenAmount x pricePerToken; an accepted sale lowers the
\* holder's balance by tokenAmount, raises availableSupply by tokenAmount
\* and pays out exactly tokenAmount x pricePerToken.
C15_Sell ==
    /\ [](\A sender \in Callers, tokenAmount \in ShareAmounts :
            (\/ ledger.balances[sender] < tokenAmount
             \/ ledger.tokenEth < tokenAmount * ledger.tokenInfo.pricePerToken)
            => /\ SellTokensRevert(ledger, sender, tokenAmount) # ""
               /\ ~ENABLED SellTokens(sender, tokenAmount))
    /\ [][\A sender \in Callers, tokenAmount \in ShareAmounts :
            SellTokens(sender, tokenAmount) =>
              /\ ledger'.balances[sender] = ledger.balances[sender] - tokenAmount
              /\ \A x \in Addresses \ {sender, TokenAddr} :
                     ledger'.balances[x] = ledger.balances[x]
              /\ ledger'.tokenInfo.availableSupply
                     = ledger.tokenInfo.availableSupply + tokenAmount
              /\ ledger'.tokenEth
                     = ledger.tokenEth - tokenAmount * ledger.tokenInfo.pricePerToken
       ]_vars

\* a bought 600 shares and sold 400 of them back
C15_Witness ==
    /\ ledger.balances["a"] = 200
    /\ ledger.tokenInfo.availableSupply = ledger.tokenInfo.totalSupply - 200
    /\ ledger.tokenEth = 200 * ledger.tokenInfo.pricePerToken

\* C16 (SpecLedger): every accepted transfer or transferFrom that moves
\* shares from `from` to `to` finds both `from` and `to` KYC-verified at
\* that moment, and both are rejected while `from` holds less than the
\* amount.
C16_TransferCompliance ==
    /\ [](\A sender \in Callers, from \in Addresses, to \in Addresses,
            amount \in ShareAmounts :
            ledger.balances[from] < amount =>
                /\ TransferRevert(ledger, from, to, amount) # ""
                /\ TransferFromRevert(ledger, sender, from, to, amount) # "")
    /\ [][\/ ledger'.balances = ledger.balances
          \/ \A sender \in Callers, from \in Addresses, to \in Addresses,
            amount \in ShareAmounts :
            (Transfer(from, to, amount) \/ TransferFrom(sender, from, to, amount))
                => /\ from \in ledger.kycVerified
                   /\ to \in ledger.kycVerified
                   /\ ledger'.balances[from] = ledger.balances[from] - amount
                         \/ from = to
       ]_vars

\* an approved spender has moved 400 of a's 600 shares to b, who never bought
C16_Witness ==
    /\ ledger.allowances["a"]["b"] = 200
    /\ ledger.balances["a"] = 200
    /\ ledger.balances["b"] = 400
    /\ ledger.investments["b"] = <<>>
    /\ {"a", "b"} \subseteq ledger.kycVerified

\* C17 (SpecLedger): pause is a circuit breaker.  While the token contract
\* is paused every purchaseTokens, sellTokens, transfer and transferFrom
\* call is rejected, and while RentDistribution is paused every
\* depositRent, createDistribution, claimDistribution and batchDistribute
\* call is rejected.
C17_PauseBlocksAll ==
    /\ ledger.tokenPaused =>
           \A sender \in Callers, amount \in ShareAmounts :
               /\ \A value \in Payments(ledger, amount) :
                      PurchaseTokensRevert(ledger, sender, amount, value) # ""
               /\ SellTokensRevert(ledger, sender, amount) # ""
               /\ \A to \in Addresses :
                      /\ TransferRevert(ledger, sender, to, amount) # ""
                      /\ \A from \in Addresses :
                             TransferFromRevert(ledger, sender, from, to, amount) # ""
    /\ rentPaused =>
           \A sender \in Callers :
               /\ \A value \in DepositAmounts : DepositRentRevert(sender, value) # ""
               /\ \A rentAmount \in RentAmounts :
                      CreateDistributionRevert(sender, rentAmount) # ""
               /\ \A id \in DistributionIds :
                      /\ ClaimDistributionRevert(sender, id) # ""
                      /\ BatchDistributeRevert(sender, id) # ""

\* C18 (Spec): pause is checked before any other check.  While
\* RentDistribution is paused every depositRent, createDistribution,
\* claimDistribution and batchDistribute call fails with "Pausable: paused"
\* whatever else is wrong with it, and while the token contract is paused
\* so does every purchaseTokens and sellTokens call.
C18_PauseCheckedFirst ==
    /\ rentPaused =>
           \A sender \in Callers :
               /\ \A value \in DepositAmounts :
                      DepositRentRevert(sender, value) = "Pausable: paused"
               /\ \A rentAmount \in RentAmounts :
                      CreateDistributionRevert(sender, rentAmount) = "Pausable: paused"
               /\ \A id \in DistributionIds :
                      /\ ClaimDistributionRevert(sender, id) = "Pausable: paused"
                      /\ BatchDistributeRevert(sender, id) = "Pausable: paused"
    /\ ledger.tokenPaused =>
           \A sender \in Callers, amount \in PurchaseAmounts :
               /\ \A value \in Payments(ledger, amount) :
                      PurchaseTokensRevert(ledger, sender, amount, value)
                          = "Pausable: paused"
               /\ SellTokensRevert(ledger, sender, amount) = "Pausable: paused"

\* C19 (SpecSnapshot): fixed snapshot.  No step, whether a purchase, sale,
\* transfer, fee update, deposit, further createDistribution, claim or
\* batch, changes the gross amount, the two fees, the net amount, the
\* denominator, the investor list or any allocation of a distribution that
\* has been created; its claimed flags are only ever set, its
\* totalDistributed only grows and its isCompleted is only ever set.
C19_FixedSnapshot ==
    [][\A d \in Created :
         /\ distributions'[d].totalRentCollected = distributions[d].totalRentCollected
         /\ distributions'[d].platformFee = distributions[d].platformFee
         /\ distributions'[d].propertyOwnerFee = distributions[d].propertyOwnerFee
         /\ distributionAmount'[d] = distributionAmount[d]
         /\ distributions'[d].totalTokensAtDistribution
                = distributions[d].totalTokensAtDistribution
         /\ distributions'[d].investors = distributions[d].investors
         /\ distributions'[d].investorDistributions
                = distributions[d].investorDistributions
         /\ \A h \in Addresses :
                distributions[d].claimed[h] => distributions'[d].claimed[h]
         /\ distributions'[d].totalDistributed >= distributions[d].totalDistributed
         /\ distributions[d].isCompleted => distributions'[d].isCompleted
      ]_vars

\* two distributions exist; since the first was created the fee rates and
\* the balances have changed and a holder has claimed from it
C19_Witness ==
    /\ distributionCounter = 2
    /\ ratesAtCreation[0] # ratesAtCreation[1]
    /\ snapshotBalance[0] # snapshotBalance[1]
    /\ distributions[0].claimed["a"]
    /\ distributions[0].investorDistributions["a"] > 0

\* C20 (Spec): batchDistribute(distributionId, offset, limit) claims and
\* pays only investors at positions offset .. offset + limit - 1 of the
\* investor list (counted from 0): whatever slice is asked for, the claimed
\* flag and the payments of every investor outside it are unchanged by the
\* call.  The entry point of the code takes the distribution id alone.
C20_BatchSlice ==
    [][\A sender \in Callers, id \in DistributionIds :
         BatchDistribute(sender, id) =>
           LET investors == distributions[id].investors IN
           \A offset \in 0 .. Len(investors), limit \in 1 .. Len(investors) :
             \A i \in 1 .. Len(investors) :
               (i - 1 < offset \/ i - 1 >= offset + limit) =>
                 /\ distributions'[id].claimed[investors[i]]
                        = distributions[id].claimed[investors[i]]
                 /\ payouts'[id][investors[i]] = payouts[id][investors[i]]
      ]_vars

\* C21 (Spec): createDistribution is rejected for every caller other than
\* the property owner, for an amount of zero and for an amount above the
\* contract's balance; the distribution counter, the stored distributions
\* and the fees leaving the contract change only in a step that is an
\* accepted createDistribution by the property owner with amount > 0 and
\* balance >= amount.
C21_CreateGuarded ==
    /\ [](\A sender \in Callers, rentAmount \in RentAmounts \cup {0, 3000} :
            (sender # PropertyOwner \/ ~(rentAmount > 0) \/ rentEth < rentAmount)
                => /\ CreateDistributionRevert(sender, rentAmount) # ""
                   /\ ~ENABLED CreateDistribution(sender, rentAmount))
    /\ [][(\/ distributionCounter' # distributionCounter
           \/ \E d \in DistributionIds :
                  \/ distributions'[d].totalRentCollected
                         # distributions[d].totalRentCollected
                  \/ distributions'[d].platformFee # distributions[d].platformFee
                  \/ distributions'[d].investors # distributions[d].investors)
            => \E rentAmount \in RentAmounts :
                  /\ rentAmount > 0
                  /\ rentEth >= rentAmount
                  /\ CreateDistribution(PropertyOwner, rentAmount)
         ]_vars

\* rent was deposited and recorded, the operator emptied the contract, and
\* createDistribution for the recorded rent is rejected for lack of balance
C21_Witness ==
    /\ totalRentCollected = 2000
    /\ rentEth = 0
    /\ propertyToToken
    /\ ~rentPaused
    /\ distributionCounter = 0
    /\ CreateDistributionRevert(PropertyOwner, 1000) = "Insufficient contract balance"

\* C22 (Spec): depositRent is rejected for every caller other than the
\* property owner; an accepted depositRent of value raises
\* totalRentCollected and the contract's balance by exactly value and
\* leaves the distribution counter and every stored distribution
\* (allocations, claimed flags, completion) as they were.
C22_DepositCustodyOnly ==
    /\ [](\A sender \in Callers \ {PropertyOwner}, value \in DepositAmounts :
            /\ DepositRentRevert(sender, value) # ""
            /\ ~ENABLED DepositRent(sender, value))
    /\ [][\A sender \in Callers, value \in DepositAmounts :
            DepositRent(sender, value) =>
                /\ sender = PropertyOwner
                /\ totalRentCollected' = totalRentCollected + value
                /\ rentEth' = rentEth + value
                /\ distributionCounter' = distributionCounter
                /\ distributions' = distributions
                /\ payouts' = payouts
         ]_vars

\* the property owner has deposited rent and nothing has been distributed
C22_Witness ==
    /\ deposits = 1
    /\ totalRentCollected = 2000
    /\ rentEth = 2000
    /\ distributionCounter = 0
    /\ distributions = [d \in DistributionIds |-> EmptyDistribution]

\* C23 (Spec): the step of an accepted createDistribution sends the
\* platform fee to the operator and the management fee to the property
\* owner and nothing to anyone else, so the contract's balance falls by
\* exactly platformFee + propertyOwnerFee; what the contract then holds
\* covers the whole net amount, allocated or not.
C23_FeesPaidAtCreation ==
    [][\A rentAmount \in RentAmounts :
         CreateDistribution(PropertyOwner, rentAmount) =>
           LET id == distributionCounter
               platformFee == distributions'[id].platformFee
               managementFee == distributions'[id].propertyOwnerFee
           IN  /\ feesPaid'[Operator] = feesPaid[Operator] + platformFee
               /\ feesPaid'[PropertyOwner] = feesPaid[PropertyOwner] + managementFee
               /\ \A x \in Callers \ {Operator, PropertyOwner} :
                      feesPaid'[x] = feesPaid[x]
               /\ payouts' = payouts
               /\ rentEth' = rentEth - (platformFee + managementFee)
               /\ distributionAmount'[id] = rentAmount - platformFee - managementFee
               /\ rentEth' >= distributionAmount'[id]
               /\ distributionAmount'[id]
                      >= SumOver(distributions'[id].investorDistributions, Addresses)
      ]_vars

\* a distribution of 1000 at the initial rates: 25 went to the operator, 50
\* to the property owner, and part of the net amount is allocated to nobody
C23_Witness ==
    /\ distributionCounter = 1
    /\ distributions[0].totalRentCollected = 1000
    /\ feesPaid[Operator] = 25
    /\ feesPaid[PropertyOwner] = 50
    /\ rentEth = 1925
    /\ distributionAmount[0] = 925
    /\ AllocationSum(0) < 925

\* C24 (Spec): platformFeePercentage never exceeds 1000 and
\* managementFeePercentage never exceeds 2000; updateFees is rejected for
\* every caller other than the operator and for every pair of rates with
\* one above its ceiling, and the rates change only in an accepted
\* updateFees of the operator.
C24_FeeCeilings ==
    /\ [](/\ platformFeePercentage <= 1000
          /\ managementFeePercentage <= 2000
          /\ \A sender \in Callers, platform \in PlatformFeeChoices,
                management \in ManagementFeeChoices :
                 (sender # Operator \/ platform > 1000 \/ management > 2000)
                     => /\ UpdateFeesRevert(sender, platform, management) # ""
                        /\ ~ENABLED UpdateFees(sender, platform, management))
    /\ [][(\/ platformFeePercentage' # platformFeePercentage
           \/ managementFeePercentage' # managementFeePercentage)
            => \E platform \in PlatformFeeChoices,
                  management \in ManagementFeeChoices :
                   /\ platform <= 1000
                   /\ management <= 2000
                   /\ UpdateFees(Operator, platform, management)
         ]_vars

\* the operator has set both rates to their ceilings and a distribution
\* was created at these rates
C24_Witness ==
    /\ platformFeePercentage = 1000
    /\ managementFeePercentage = 2000
    /\ distributionCounter = 1
    /\ ratesAtCreation[0] = [platform |-> 1000, management |-> 2000]

\* C25 (Spec): claimDistribution and batchDistribute on a distribution id
\* that createDistribution has not yet used are rejected and change
\* nothing: the slot of every unused id holds what it held at construction,
\* in particular it is not completed.
C25_UnknownIdUntouched ==
    \A d \in DistributionIds :
        d >= distributionCounter =>
            /\ distributions[d] = EmptyDistribution
            /\ ~distributions[d].isCompleted

\* C26 (SpecOwnership): for every address, getOwnershipPercentage returns
\* the largest integer r with r x totalSupply <= balance x 10000, returns
\* 0 when the balance or the total supply is 0, and lies in 0 .. 10000.
\* (The function is a view: it has no step of its own.)
C26_OwnershipPercentage ==
    \A investor \in Addresses :
        LET r == GetOwnershipPercentage(ledger, investor)
            balance == ledger.balances[investor]
            totalShares == ledger.tokenInfo.totalSupply
        IN  /\ r \in 0 .. 10000
            /\ (balance = 0 \/ totalShares = 0) => r = 0
            /\ (balance # 0 /\ totalShares # 0) =>
                   /\ r * totalShares <= balance * 10000
                   /\ balance * 10000 < (r + 1) * totalShares

\* two of seven shares: 20000 / 7 is rounded down to 2857
C26_Witness ==
    /\ ledger.tokenInfo.totalSupply = 7
    /\ ledger.balances["a"] = 2
    /\ ledger.balances["b"] = 0
    /\ GetOwnershipPercentage(ledger, "a") = 2857
    /\ GetOwnershipPercentage(ledger, "b") = 0

\* s is an initial segment of t
IsPrefix(s, t) ==
    /\ Len(s) <= Len(t)
    /\ \A i \in 1 .. Len(s) : s[i] = t[i]

\* C27 (SpecLedger): no address occurs twice in the investor list; every
\* step keeps the investor list and every investment log as an initial
\* segment of its new value, so no entry is removed, moved or rewritten.
C27_RegistryAppendOnly ==
    /\ [](\A i, j \in 1 .. Len(ledger.investors) :
              i # j => ledger.investors[i] # ledger.investors[j])
    /\ [][/\ IsPrefix(ledger.investors, ledger'.investors)
          /\ \A x \in Addresses :
                 IsPrefix(ledger.investments[x], ledger'.investments[x])
         ]_vars

\* a bought twice and is listed once; b bought nothing, holds shares by
\* transfer and is not listed; a holds nothing and is still listed
C27_Witness ==
    /\ ledger.investors = <<"a">>
    /\ Len(ledger.investments["a"]) = 2
    /\ ledger.balances["a"] = 0
    /\ ledger.balances["b"] > 0

\* C28 (Spec): availableSupply lies in 0 .. totalSupply, and no balance and
\* no allocation of any distribution is negative; a purchase of more than
\* the available supply and a sale or transfer of more than the sender's
\* balance are rejected.
C28_NothingNegative ==
    /\ ledger.tokenInfo.availableSupply \in 0 .. ledger.tokenInfo.totalSupply
    /\ \A x \in Addresses : ledger.balances[x] >= 0
    /\ \A d \in DistributionIds, x \in Addresses :
           distributions[d].investorDistributions[x] >= 0
    /\ \A sender \in Investors, amount \in PurchaseAmounts :
           /\ amount > ledger.tokenInfo.availableSupply =>
                  \A value \in Payments(ledger, amount) :
                      /\ PurchaseTokensRevert(ledger, sender, amount, value) # ""
                      /\ ~ENABLED PurchaseTokens(sender, amount, value)
           /\ amount > ledger.balances[sender] =>
                  /\ SellTokensRevert(ledger, sender, amount) # ""
                  /\ ~ENABLED SellTokens(sender, amount)
                  /\ \A to \in Investors :
                         /\ TransferRevert(ledger, sender, to, amount) # ""
                         /\ ~ENABLED Transfer(sender, to, amount)
                         /\ \A spender \in Investors :
                                TransferFromRevert(ledger, spender, sender, to,
                                                   amount) # ""

\* a bought shares and sold them all back: the available supply is the
\* total supply again, a is listed with balance 0 and allocation 0, and a
\* further sale by a is rejected
C28_Witness ==
    /\ ledger.investors = <<"a">>
    /\ ledger.balances["a"] = 0
    /\ ledger.tokenInfo.availableSupply = ledger.tokenInfo.totalSupply
    /\ ledger.tokenEth = 0
    /\ distributionCounter = 1
    /\ distributions[0].investors = <<"a">>
    /\ distributions[0].investorDistributions["a"] = 0
    /\ SellTokensRevert(ledger, "a", 400) = "Insufficient token balance"

\* C29 (SpecSnapshot): no step changes tokenInfo.totalSupply; a step that
\* changes availableSupply is an accepted purchaseTokens, which lowers it
\* by tokenAmount, or an accepted sellTokens, which raises it by
\* tokenAmount; a transfer and every step of RentDistribution leave it as
\* it was.
C29_SupplyFrame ==
    [][/\ ledger'.tokenInfo.totalSupply = ledger.tokenInfo.totalSupply
       /\ \A sender \in Investors, amount \in ShareAmounts \cup SnapshotLots :
              /\ PurchaseTokens(sender, amount,
                                amount * ledger.tokenInfo.pricePerToken)
                     => ledger'.tokenInfo.availableSupply
                            = ledger.tokenInfo.availableSupply - amount
              /\ SellTokens(sender, amount)
                     => ledger'.tokenInfo.availableSupply
                            = ledger.tokenInfo.availableSupply + amount
       /\ ledger'.tokenInfo.availableSupply # ledger.tokenInfo.availableSupply
              => \E sender \in Investors, amount \in ShareAmounts \cup SnapshotLots :
                     \/ PurchaseTokens(sender, amount,
                                       amount * ledger.tokenInfo.pricePerToken)
                     \/ SellTokens(sender, amount)
       /\ ledger'.balances # ledger.balances
              => \/ ledger'.tokenInfo.availableSupply
                        # ledger.tokenInfo.availableSupply
                 \/ \E sender \in Investors, to \in Investors,
                        amount \in SnapshotLots : Transfer(sender, to, amount)
       /\ <<rentVars, histVars>>' # <<rentVars, histVars>>
              => ledger'.tokenInfo = ledger.tokenInfo
      ]_vars

\* a bought 400 shares, was allocated and paid rent for them, and passed
\* them on to b: the available supply is still 600 of 1000
C29_Witness ==
    /\ ledger.tokenInfo.totalSupply = TotalSupply
    /\ ledger.tokenInfo.availableSupply = TotalSupply - 400
    /\ ledger.balances["a"] = 0
    /\ ledger.balances["b"] = 400
    /\ ledger.investors = <<"a">>
    /\ distributionCounter >= 1
    /\ payouts[0]["a"] = 1

\* C30 (SpecReentrant): while claimDistribution is at its transfer the
\* payee's claimed flag is set and totalDistributed already counts the
\* amount, so claimDistribution entered again by the payee is rejected,
\* by the guard and by the flag alone, and the loop of batchDistribute
\* does not pay the payee; in every state, also between the steps of other
\* holders' claims and after a failed transfer, each holder has been paid
\* at most once per distribution.
C30_NoSecondPayout ==
    /\ \A d \in DistributionIds, x \in Addresses : payouts[d][x] <= 1
    /\ transferring.active =>
           LET id == transferring.id
               payee == transferring.sender
           IN  /\ distributions[id].claimed[payee]
               /\ distributions[id].totalDistributed
                      = transferring.saved.totalDistributed + transferring.amount
               /\ payouts[id][payee] = 0
               /\ rentEth >= transferring.amount
               /\ ReentrantClaimRevert(payee, id) # ""
               /\ ClaimDistributionRevert(payee, id) = "Already claimed"
               /\ ~BatchPays(distributions[id], payee)
               /\ \A sender \in Callers, d \in DistributionIds :
                      /\ ReentrantClaimRevert(sender, d) # ""
                      /\ ReentrantBatchRevert(sender, d) # ""

\* b has been paid and a's claim is at its transfer: control is with a's
\* code
C30_Witness ==
    /\ transferring.active
    /\ transferring.sender = "a"
    /\ transferring.amount > 0
    /\ payouts[transferring.id]["b"] = 1
    /\ payouts[transferring.id]["a"] = 0
    /\ distributions[transferring.id].claimed["a"]
    /\ distributions[transferring.id].claimed["b"]
    /\ ~distributions[transferring.id].isCompleted

\* C31 (SpecLedger), as stated: in every state the availableTokens that
\* PropertyNFT records for the property equals tokenInfo.availableSupply.
C31_RegistryNeverDiverges ==
    ledger.nftAvailableTokens = ledger.tokenInfo.availableSupply

\* C31 (SpecLedger), amended: every accepted purchaseTokens and sellTokens
\* leaves PropertyNFT's availableTokens equal to tokenInfo.availableSupply;
\* when the two are equal, only a direct updateAvailableTokens call of
\* PropertyNFT's owner makes them differ; and once the token contract owns
\* PropertyNFT that call is rejected for every caller.
C31_RegistryFollowsLedger ==
    /\ [](ledger.nftOwner = TokenAddr =>
              \A sender \in Callers, n \in RegistryCounts :
                  /\ UpdateAvailableTokensDirectRevert(ledger, sender) # ""
                  /\ ~ENABLED UpdateAvailableTokensDirect(sender, n))
    /\ [][/\ (\E sender \in Investors :
                 \/ \E tokenAmount \in PurchaseAmounts :
                        \E value \in Payments(ledger, tokenAmount) :
                            PurchaseTokens(sender, tokenAmount, value)
                 \/ \E tokenAmount \in ShareAmounts :
                        SellTokens(sender, tokenAmount))
              => ledger'.nftAvailableTokens = ledger'.tokenInfo.availableSupply
          /\ (/\ ledger.nftAvailableTokens = ledger.tokenInfo.availableSupply
              /\ ledger'.nftAvailableTokens # ledger'.tokenInfo.availableSupply)
              => \E sender \in Callers, n \in RegistryCounts :
                     UpdateAvailableTokensDirect(sender, n)
         ]_vars

\* all shares were bought and 600 sold back; both counts are 600
C31_Witness ==
    /\ ledger.nftOwner = TokenAddr
    /\ ledger.balances["a"] = 400
    /\ Len(ledger.investments["a"]) = 2
    /\ ledger.tokenInfo.availableSupply = 600
    /\ ledger.nftAvailableTokens = 600

\* what distribution d still owes: the allocations not yet claimed, when d
\* is not completed
Owed(d) ==
    IF distributions[d].isCompleted THEN 0
    ELSE SumOver([x \in Addresses |->
                     IF distributions[d].claimed[x] THEN 0
                     ELSE distributions[d].investorDistributions[x]],
                 Addresses)

\* C32 (Spec): the contract's balance is at least the sum, over the
\* created distributions that are not completed, of the allocations not
\* yet claimed.
C32_CustodySolvent ==
    rentEth >= SumOver([d \in DistributionIds |->
                           IF d \in Created THEN Owed(d) ELSE 0],
                       DistributionIds)

\* C33 (SpecCustody): the rent amounts of the created distributions add
\* up to at most totalRentCollected, the rent deposited by depositRent.
C33_DistributedWithinDeposited ==
    SumOver([d \in DistributionIds |->
                IF d \in Created THEN distributions[d].totalRentCollected ELSE 0],
            DistributionIds)
        <= totalRentCollected

\* C34 (SpecLedger): every account that holds shares, the token contract
\* aside, is on the investor list, from which createDistribution takes the
\* holders it allocates to.
C34_HoldersRegistered ==
    \A x \in Addresses \ {TokenAddr} :
        ledger.balances[x] > 0 => x \in Range(ledger.investors)

(***************************************************************************)
(* Completion of a distribution.  The payees and the operator are taken to *)
(* keep calling: a claim or a batch run that would be accepted is          *)
(* eventually made.  Nothing else is assumed of the other callers.         *)
(***************************************************************************)
Fairness ==
    /\ \A sender \in Callers, id \in DistributionIds :
           WF_vars(ClaimDistribution(sender, id))
    /\ \A id \in DistributionIds : WF_vars(BatchDistribute(Operator, id))

SpecFair == Init /\ [][Next]_vars /\ Fairness

\* a payee of distribution id that has not been paid yet
Unpaid(sender, id) ==
    /\ id \in Created
    /\ ~distributions[id].isCompleted
    /\ distributions[id].investorDistributions[sender] > 0
    /\ ~distributions[id].claimed[sender]

\* C35 (SpecFair): while RentDistribution is not paused, the claim of every
\* unpaid payee and the operator's batch run of an open distribution are
\* accepted, and a created distribution that is never paused again
\* eventually becomes completed.
C35_CompletionReachable ==
    /\ [](\A id \in DistributionIds :
            (id \in Created /\ ~distributions[id].isCompleted /\ ~rentPaused) =>
                /\ BatchDistributeRevert(Operator, id) = ""
                /\ \A sender \in Callers :
                       Unpaid(sender, id) => ClaimDistributionRevert(sender, id) = "")
    /\ \A id \in DistributionIds :
           []((id \in Created /\ []~rentPaused) => <>distributions[id].isCompleted)

(***************************************************************************)
(* PropertyManager and the property NFT.  PropertyManager calls the other  *)
(* contracts in its own name: at PropertyNFT and at the token contract     *)
(* msg.sender is address(PropertyManager).                                 *)
(***************************************************************************)
\* PropertyManager.batchSetKYCStatus(users, verified) onlyOwner, then
\* PropertyNFT.batchSetKYCStatus(users, verified) onlyOwner
BatchSetKYCStatusRevert(L, sender) ==
    IF sender # Operator THEN "Ownable: caller is not the owner"
    ELSE IF PropertyManager # L.nftOwner THEN "Ownable: caller is not the owner"
    ELSE ""

BatchSetKYCStatusEffect(L, users, verified) ==
    [L EXCEPT !.kycVerified = IF verified THEN @ \cup users ELSE @ \ users]

BatchSetKYCStatus(sender, users, verified) ==
    /\ BatchSetKYCStatusRevert(ledger, sender) = ""
    /\ ledger' = BatchSetKYCStatusEffect(ledger, users, verified)
    /\ UNCHANGED <<rentVars, histVars>>

\* PropertyNFT.transferFrom(from, to, tokenId) onlyKYCVerified, then ERC721
\* transferFrom; no approval is ever given, so only the holder may move it.
\* properties[tokenId].propertyOwner is not written.
NFTTransferFromRevert(L, sender, from, to) ==
    IF sender \notin L.kycVerified THEN "KYC verification required"
    ELSE IF to \notin L.kycVerified THEN "Recipient must be KYC verified"
    ELSE IF sender # L.nftHolder
         THEN "ERC721: caller is not token owner or approved"
    ELSE IF from # L.nftHolder THEN "ERC721: transfer from incorrect owner"
    ELSE ""

NFTTransferFromEffect(L, to) == [L EXCEPT !.nftHolder = to]

NFTTransferFrom(sender, from, to) ==
    /\ NFTTransferFromRevert(ledger, sender, from, to) = ""
    /\ ledger' = NFTTransferFromEffect(ledger, to)
    /\ UNCHANGED <<rentVars, histVars>>

\* PropertyManager.pause() / unpause() onlyOwner
ManagerPauseRevert(L, sender, pause) ==
    IF sender # Operator THEN "Ownable: caller is not the owner"
    ELSE IF pause /\ L.managerPaused THEN "Pausable: paused"
    ELSE IF ~pause /\ ~L.managerPaused THEN "Pausable: not paused"
    ELSE ""

ManagerPauseEffect(L, pause) == [L EXCEPT !.managerPaused = pause]

ManagerPause(sender, pause) ==
    /\ ManagerPauseRevert(ledger, sender, pause) = ""
    /\ ledger' = ManagerPauseEffect(ledger, pause)
    /\ UNCHANGED <<rentVars, histVars>>

\* PropertyManager.investInProperty(propertyId, tokenAmount) payable
\* whenNotPaused nonReentrant: the KYC check of msg.sender, then
\* fractionalToken.purchaseTokens{value: msg.value}(tokenAmount), in which
\* msg.sender is address(PropertyManager)
InvestInPropertyRevert(L, sender, tokenAmount, value) ==
    IF L.managerPaused THEN "Pausable: paused"
    ELSE IF sender \notin L.kycVerified THEN "KYC verification required"
    ELSE IF ~(tokenAmount > 0) THEN "Token amount must be greater than 0"
    ELSE PurchaseTokensRevert(L, PropertyManager, tokenAmount, value)

\* the refund of purchaseTokens arrives at PropertyManager's receive()
InvestInPropertyEffect(L, sender, tokenAmount, value) ==
    LET totalCost == tokenAmount * L.tokenInfo.pricePerToken
        bought == PurchaseTokensEffect(L, PropertyManager, tokenAmount, value)
    IN  [bought EXCEPT !.managerEth = @ + (value - totalCost),
                       !.totalInvestments = @ + 1]

InvestInProperty(sender, tokenAmount, value) ==
    /\ InvestInPropertyRevert(ledger, sender, tokenAmount, value) = ""
    /\ LogLength(ledger) < MaxInvestments
    /\ ledger' = InvestInPropertyEffect(ledger, sender, tokenAmount, value)
    /\ UNCHANGED <<rentVars, histVars>>

(***************************************************************************)
(* SpecDeployed: the wiring of scripts/deploy.js.  PropertyNFT and         *)
(* RentDistribution are owned by PropertyManager, which has created the    *)
(* property for PropertyOwner (mint, token contract, registration of the   *)
(* token at RentDistribution).  PropertyManager has no function that hands *)
(* either ownership on, so the wiring stays.  Of RentDistribution the     *)
(* entry points that do not depend on its owner are run.                   *)
(***************************************************************************)
Deployed ==
    NFTTransferOwnershipEffect(
        SetKYCStatusEffect(Constructed, PropertyOwner, TRUE), PropertyManager)

KYCSubjects == Investors \cup {PropertyOwner, PropertyManager}

InitDeployed ==
    /\ ledger = Deployed
    /\ propertyToToken = TRUE
    /\ totalRentCollected = 0
    /\ distributions = [d \in DistributionIds |-> EmptyDistribution]
    /\ distributionCounter = 0
    /\ platformFeePercentage = 250
    /\ managementFeePercentage = 500
    /\ rentEth = 0
    /\ rentPaused = FALSE
    /\ transferring = NoTransfer
    /\ distributionAmount = [d \in DistributionIds |-> 0]
    /\ snapshotBalance = [d \in DistributionIds |-> [x \in Addresses |-> 0]]
    /\ ratesAtCreation = [d \in DistributionIds |-> [platform |-> 0, management |-> 0]]
    /\ payouts = [d \in DistributionIds |-> [x \in Addresses |-> 0]]
    /\ deposits = 0
    /\ feesPaid = [x \in Callers |-> 0]

NextDeployed ==
    \/ \E sender \in Callers, user \in KYCSubjects, verified \in BOOLEAN :
           BatchSetKYCStatus(sender, {user}, verified)
    \/ \E sender \in Callers, from \in Callers, to \in Callers :
           NFTTransferFrom(sender, from, to)
    \/ \E sender \in Callers, pause \in BOOLEAN : ManagerPause(sender, pause)
    \/ \E sender \in Callers, value \in DepositAmounts : DepositRent(sender, value)
    \/ \E sender \in Callers, value \in DepositAmounts : Receive(sender, value)

SpecDeployed == InitDeployed /\ [][NextDeployed]_vars

\* what purchaseTokens lists as its requirements, for a buyer who pays the
\* exact cost
PurchasePreconditions(L, sender, tokenAmount) ==
    /\ sender \in L.kycVerified
    /\ L.tokenInfo.isActive
    /\ ~L.tokenPaused
    /\ tokenAmount > 0
    /\ tokenAmount <= L.tokenInfo.availableSupply

\* C36 (SpecDeployed): under the deployed wiring a purchase by a verified
\* buyer of an active, unpaused token, of a positive amount within the
\* available supply and paid in full, is accepted.
C36_PurchaseSucceedsWhenDeployed ==
    \A sender \in Investors, tokenAmount \in ShareAmounts :
        PurchasePreconditions(ledger, sender, tokenAmount) =>
            PurchaseTokensRevert(ledger, sender, tokenAmount,
                tokenAmount * ledger.tokenInfo.pricePerToken) = ""

\* C38 (SpecDeployed): depositRent and createDistribution accept a caller
\* only if it is the current holder of the property NFT, and whenever they
\* accept anyone they accept that holder.
C38_AuthorityFollowsNFT ==
    /\ \A sender \in Callers, value \in DepositAmounts :
           /\ DepositRentRevert(sender, value) = "" => sender = ledger.nftHolder
           /\ DepositRentRevert(sender, value) = "" =>
                  DepositRentRevert(ledger.nftHolder, value) = ""
    /\ \A sender \in Callers, rentAmount \in RentAmounts :
           /\ CreateDistributionRevert(sender, rentAmount) = "" =>
                  sender = ledger.nftHolder
           /\ CreateDistributionRevert(sender, rentAmount) = "" =>
                  CreateDistributionRevert(ledger.nftHolder, rentAmount) = ""

(***************************************************************************)
(* SpecManager: investing through PropertyManager in the one wiring in     *)
(* which purchaseTokens can be accepted.  The operator has verified        *)
(* PropertyManager's own address and some of the investors and then handed *)
(* PropertyNFT to the token contract.                                      *)
(***************************************************************************)
InitManager ==
    /\ ledger \in {NFTTransferOwnershipEffect(
                       VerifyAll(Constructed, V \cup {PropertyManager}), TokenAddr) :
                   V \in SUBSET Investors}
    /\ RentConstructed

NextManager ==
    \/ \E sender \in Investors, tokenAmount \in PurchaseAmounts :
           \E value \in Payments(ledger, tokenAmount) :
               InvestInProperty(sender, tokenAmount, value)
    \/ \E sender \in Investors, tokenAmount \in PurchaseAmounts :
           \E value \in Payments(ledger, tokenAmount) :
               PurchaseTokens(sender, tokenAmount, value)
    \/ \E sender \in Investors, tokenAmount \in ShareAmounts :
           SellTokens(sender, tokenAmount)
    \/ \E sender \in Investors, to \in Investors, amount \in ShareAmounts :
           Transfer(sender, to, amount)
    \/ \E sender \in Callers, pause \in BOOLEAN : ManagerPause(sender, pause)

SpecManager == InitManager /\ [][NextManager]_vars

====
